---- MODULE Spec2Model ----
(***************************************************************************)
(* MotoBoard (src/src/App.tsx): the client-side orchestration layer of the *)
(* sound board.  The React component's state is the module's state; every  *)
(* event handler is one action up to its first await, and every await is a *)
(* task in flight that the backend answers and the handler then resumes.   *)
(***************************************************************************)
EXTENDS Integers, Sequences, FiniteSets, TLC

VARIABLES
  sounds,          \* useState<Sound[]>: the ids of the local list, in order
  draggedSound,    \* useState<string | null>
  dragOverSound,   \* useState<string | null>
  backendSounds,   \* the order the backend holds
  tasks,           \* async invocations awaiting a backend call
  recordingKeybind,\* useState<'sound' | 'stopAll' | null>
  stopAllKeybind,  \* useState<string>, '' when none
  editingSound,    \* useState<Sound | null>: its id and keybind
  libKeybind,      \* sounds[i].keybind of the local list, by sound id
  registry,        \* backend: the chords registered, each with its target
  keyTasks,        \* handleGlobalKeyDown invocations awaiting a call
  soundQueue,      \* useState<string[]>: the local copy of the queue
  isQueuePlaying,  \* useState(false)
  backendQueue,    \* backend: the queue it holds
  backendPlaying,  \* backend: what is_queue_playing answers
  timers,          \* the checkQueue intervals that are set
  queueTasks,      \* queue, playback and stop-all invocations awaiting a call
  playingSound,    \* useState<string | null>: the card shown as playing
  playTimeouts,    \* the setTimeout callbacks of playSound that are pending
  waveformData,    \* useState<number[]>: the buckets the canvas draws
  audioDuration,   \* useState(0), in tenths of a second
  waveTasks,       \* loadWaveform invocations awaiting the read and decode
  startTime,       \* editingSound.startTime, in tenths of a second
  endTime,         \* editingSound.endTime, in tenths of a second
  previewAudioRef, \* useRef<HTMLAudioElement | null>: an audio's index
  isPreviewPlaying,\* useState(false)
  audios,          \* the Audio elements previewTrim has created
  previewTasks,    \* previewTrim invocations awaiting the file read
  logs,            \* useState<LogEntry[]>: the timestamps of the entries
  last             \* the handler that ran last, with its inputs

dragVars == <<sounds, draggedSound, dragOverSound, backendSounds, tasks>>

keyVars == <<recordingKeybind, stopAllKeybind, editingSound, libKeybind,
             registry, keyTasks>>

playVars == <<playingSound, playTimeouts>>

queueVars == <<soundQueue, isQueuePlaying, backendQueue, backendPlaying,
               timers, queueTasks, playVars>>

editVars == <<waveformData, audioDuration, waveTasks, startTime, endTime,
              previewAudioRef, isPreviewPlaying, audios, previewTasks, logs>>

vars == <<sounds, draggedSound, dragOverSound, backendSounds, tasks,
          recordingKeybind, stopAllKeybind, editingSound, libKeybind,
          registry, keyTasks, soundQueue, isQueuePlaying, backendQueue,
          backendPlaying, timers, queueTasks, playingSound, playTimeouts,
          waveformData, audioDuration,
          waveTasks, startTime, endTime, previewAudioRef, isPreviewPlaying,
          audios, previewTasks, logs, last>>

(***************************************************************************)
(* Bounds of the model.                                                    *)
(***************************************************************************)
MaxSounds == 2    \* sounds of the library, drag specification
MaxTasks == 1     \* async invocations in flight at once
MaxListLen == 4   \* sounds of the library, reorder specification
MaxKeySounds == 1 \* sounds of the library, keybind specification
MaxKeyTasks == 1  \* key presses whose handler is in flight at once
MaxRaceTasks == 2 \* the same, in the specification of overlapping key presses
MaxBlockSize == 2 \* samples per bucket of the longest decoded audio
MaxAmp == 2       \* full scale of a sample, in the units the samples are in
MaxWaveTasks == 1 \* loadWaveform invocations in flight at once
MaxEditSounds == 2 \* sounds of the library, edit dialog specifications
MaxTrimDuration == 100 \* the long clip of the trim specification, in tenths of a second
MaxPreviewDuration == 10 \* the clip of the preview specification, in tenths of a second
MaxPreviewTasks == 1 \* previewTrim invocations in flight at once
MaxRacePreviewTasks == 2 \* the same, in the specification of overlapping starts
MaxAudios == 2    \* Audio elements created
MaxLogCalls == 110 \* calls of addLog

Null == 0
SoundIds == 1..MaxSounds

Min(a, b) == IF a < b THEN a ELSE b
Max(a, b) == IF a > b THEN a ELSE b

(***************************************************************************)
(* Array helpers, with JavaScript's 0-based indices.                       *)
(***************************************************************************)
\* Array.prototype.findIndex(s => s.id === id): the first index, or -1.
FindIndex(list, id) ==
  IF \E k \in 1..Len(list) : list[k] = id
  THEN (CHOOSE k \in 1..Len(list) :
          list[k] = id /\ \A j \in 1..(k - 1) : list[j] # id) - 1
  ELSE -1

\* The start index Array.prototype.splice uses: negative counts from the
\* end, and it is clamped to [0, length].
SpliceStart(len, start) ==
  IF start < 0 THEN Max(len + start, 0) ELSE Min(start, len)

\* list.splice(start, 1): the list without the element at start.
SpliceDelete(list, start) ==
  LET a == SpliceStart(Len(list), start)
  IN  IF a >= Len(list) THEN list
      ELSE [k \in 1..(Len(list) - 1) |-> IF k <= a THEN list[k] ELSE list[k + 1]]

\* const [removed] = list.splice(start, 1): the element taken out.
SpliceRemoved(list, start) == list[SpliceStart(Len(list), start) + 1]

\* list.splice(start, 0, x): the list with x put in at start.
SpliceInsert(list, start, x) ==
  LET a == SpliceStart(Len(list), start)
  IN  [k \in 1..(Len(list) + 1) |->
         IF k <= a THEN list[k] ELSE IF k = a + 1 THEN x ELSE list[k - 1]]

\* A plausible slip: exchange the two cards instead of moving one.
ReorderSwap(list, draggedIndex, targetIndex) ==
  [k \in 1..Len(list) |->
     IF k = draggedIndex + 1 THEN list[targetIndex + 1]
     ELSE IF k = targetIndex + 1 THEN list[draggedIndex + 1]
     ELSE list[k]]

\* handleMouseUp, the reorder: newSounds after the two splices.
Reorder(list, draggedIndex, targetIndex) ==
  SpliceInsert(SpliceDelete(list, draggedIndex), targetIndex,
               SpliceRemoved(list, draggedIndex))

(***************************************************************************)
(* Tasks: an async function suspended at an await of invoke(op, arg).      *)
(*   st = "sent": the backend has not answered; "ok"/"err": it has, and    *)
(*   the function has not resumed yet.  res is the value it answered.      *)
(***************************************************************************)
Task(fn, op, arg) == [fn |-> fn, op |-> op, arg |-> arg, st |-> "sent", res |-> <<>>]

RemoveAt(seq, i) == [k \in 1..(Len(seq) - 1) |-> IF k < i THEN seq[k] ELSE seq[k + 1]]

\* What `last` records of a handler run.
NoEvent == [key |-> "", ctrlKey |-> FALSE, altKey |-> FALSE, shiftKey |-> FALSE]

Ran(op, id, path, from, to) ==
  [op |-> op, id |-> id, path |-> path, from |-> from, to |-> to, ev |-> NoEvent]

(***************************************************************************)
(* Drag and drop.                                                          *)
(***************************************************************************)
\* handleMouseDown(e, soundId) on a card of the list.
handleMouseDown(soundId, button, onEditBtn) ==
  /\ UNCHANGED <<keyVars, queueVars, editVars>>
  /\ \E k \in 1..Len(sounds) : sounds[k] = soundId
  /\ IF button # 0 \/ onEditBtn
     THEN UNCHANGED <<dragVars, queueVars, editVars>>
     ELSE /\ draggedSound' = soundId
          /\ UNCHANGED <<sounds, dragOverSound, backendSounds, tasks>>
  /\ last' = Ran("handleMouseDown", Null,
                 IF button # 0 \/ onEditBtn THEN "ignored" ELSE "start", -1, -1)

\* A plausible slip: the marker also follows the dragged card itself.
handleMouseEnterNoSelfCheck(soundId) ==
  /\ UNCHANGED <<keyVars, queueVars, editVars>>
  /\ \E k \in 1..Len(sounds) : sounds[k] = soundId
  /\ IF draggedSound # Null
     THEN dragOverSound' = soundId
     ELSE UNCHANGED dragOverSound
  /\ UNCHANGED <<sounds, draggedSound, backendSounds, tasks>>
  /\ last' = Ran("handleMouseEnter", soundId, "hover", -1, -1)

\* handleMouseEnter(soundId) on a card of the list.
handleMouseEnter(soundId) ==
  /\ UNCHANGED <<keyVars, queueVars, editVars>>
  /\ \E k \in 1..Len(sounds) : sounds[k] = soundId
  /\ IF draggedSound # Null /\ draggedSound # soundId
     THEN dragOverSound' = soundId
     ELSE UNCHANGED dragOverSound
  /\ UNCHANGED <<sounds, draggedSound, backendSounds, tasks>>
  /\ last' = Ran("handleMouseEnter", soundId, "hover", -1, -1)

\* handleMouseLeave() on a card of the list.
handleMouseLeave ==
  /\ UNCHANGED <<keyVars, queueVars, editVars>>
  /\ Len(sounds) > 0
  /\ IF draggedSound # Null
     THEN dragOverSound' = Null
     ELSE UNCHANGED dragOverSound
  /\ UNCHANGED <<sounds, draggedSound, backendSounds, tasks>>
  /\ last' = Ran("handleMouseLeave", Null, "hover", -1, -1)

\* A plausible slip: the list is only reordered once the backend answered.
DropOnPessimistic(soundId) ==
  LET draggedIndex == FindIndex(sounds, draggedSound)
      targetIndex == FindIndex(sounds, soundId)
  IN  IF draggedIndex = -1 \/ targetIndex = -1
      THEN /\ draggedSound' = Null
           /\ dragOverSound' = Null
           /\ UNCHANGED <<sounds, backendSounds, tasks>>
           /\ last' = Ran("handleMouseUp", soundId, "notfound", draggedIndex, targetIndex)
      ELSE LET newSounds == Reorder(sounds, draggedIndex, targetIndex)
           IN  /\ Len(tasks) < MaxTasks
               /\ tasks' = Append(tasks, Task("handleMouseUp", "update_sound_order", newSounds))
               /\ UNCHANGED <<sounds, draggedSound, dragOverSound, backendSounds>>
               /\ last' = Ran("handleMouseUp", soundId, "drop", draggedIndex, targetIndex)

\* The drop of handleMouseUp: the list is reordered and the order submitted.
DropOn(soundId) ==
  LET draggedIndex == FindIndex(sounds, draggedSound)
      targetIndex == FindIndex(sounds, soundId)
  IN  IF draggedIndex = -1 \/ targetIndex = -1
      THEN /\ draggedSound' = Null
           /\ dragOverSound' = Null
           /\ UNCHANGED <<sounds, backendSounds, tasks>>
           /\ last' = Ran("handleMouseUp", soundId, "notfound", draggedIndex, targetIndex)
      ELSE LET newSounds == Reorder(sounds, draggedIndex, targetIndex)
           IN  /\ Len(tasks) < MaxTasks
               /\ sounds' = newSounds
               /\ tasks' = Append(tasks, Task("handleMouseUp", "update_sound_order", newSounds))
               /\ UNCHANGED <<draggedSound, dragOverSound, backendSounds>>
               /\ last' = Ran("handleMouseUp", soundId, "drop", draggedIndex, targetIndex)

\* A plausible slip: no early return for a release over the origin card.
handleMouseUpNoOriginCheck(soundId) ==
  /\ UNCHANGED <<keyVars, queueVars, editVars>>
  /\ \E k \in 1..Len(sounds) : sounds[k] = soundId
  /\ IF draggedSound = Null
     THEN /\ UNCHANGED <<dragVars, queueVars, editVars>>
          /\ last' = Ran("handleMouseUp", soundId, "nodrag", -1, -1)
     ELSE DropOn(soundId)

\* handleMouseUp(e, soundId) on a card of the list, up to its await.
handleMouseUp(soundId) ==
  /\ UNCHANGED <<keyVars, queueVars, editVars>>
  /\ \E k \in 1..Len(sounds) : sounds[k] = soundId
  /\ IF draggedSound = Null
     THEN /\ UNCHANGED <<dragVars, queueVars, editVars>>
          /\ last' = Ran("handleMouseUp", soundId, "nodrag", -1, -1)
     ELSE IF draggedSound = soundId
     THEN /\ draggedSound' = Null
          /\ dragOverSound' = Null
          /\ UNCHANGED <<sounds, backendSounds, tasks>>
          /\ last' = Ran("handleMouseUp", soundId, "origin", -1, -1)
     ELSE DropOn(soundId)

\* A plausible slip: the window-level handler forgets to end the session.
handleGlobalMouseUpNoClear ==
  /\ UNCHANGED <<keyVars, queueVars, editVars>>
  /\ UNCHANGED <<dragVars, queueVars, editVars>>
  /\ last' = Ran("handleGlobalMouseUp", Null, "outside", -1, -1)

\* handleGlobalMouseUp: a release that no card handled (handleMouseUp stops
\* the propagation of the releases it handles).
handleGlobalMouseUp ==
  /\ UNCHANGED <<keyVars, queueVars, editVars>>
  /\ IF draggedSound # Null
     THEN /\ draggedSound' = Null
          /\ dragOverSound' = Null
     ELSE UNCHANGED <<draggedSound, dragOverSound>>
  /\ UNCHANGED <<sounds, backendSounds, tasks>>
  /\ last' = Ran("handleGlobalMouseUp", Null, "outside", -1, -1)

(***************************************************************************)
(* The backend's side of update_sound_order and get_sounds.                *)
(***************************************************************************)
BackendAnswer(i, ok) ==
  /\ UNCHANGED <<keyVars, queueVars, editVars>>
  /\ i \in 1..Len(tasks)
  /\ tasks[i].st = "sent"
  /\ IF ~ok
     THEN /\ tasks' = [tasks EXCEPT ![i].st = "err"]
          /\ UNCHANGED backendSounds
     ELSE IF tasks[i].op = "update_sound_order"
     THEN /\ tasks' = [tasks EXCEPT ![i].st = "ok"]
          /\ backendSounds' = tasks[i].arg
     ELSE IF tasks[i].op = "remove_sound"
     THEN /\ tasks' = [tasks EXCEPT ![i].st = "ok"]
          /\ backendSounds' = SelectSeq(backendSounds, LAMBDA e : e # tasks[i].arg)
     ELSE IF tasks[i].op = "get_sounds"
     THEN /\ tasks' = [tasks EXCEPT ![i].st = "ok", ![i].res = backendSounds]
          /\ UNCHANGED backendSounds
     ELSE /\ tasks' = [tasks EXCEPT ![i].st = "ok"]
          /\ UNCHANGED backendSounds
  /\ UNCHANGED <<sounds, draggedSound, dragOverSound>>
  /\ last' = Ran("backend", Null, tasks[i].op, -1, -1)

\* A plausible slip: a failed submission is only logged, never reloaded.
ResumeMouseUpNoReload(i) ==
  /\ UNCHANGED <<keyVars, queueVars, editVars>>
  /\ i \in 1..Len(tasks)
  /\ tasks[i].fn = "handleMouseUp"
  /\ tasks[i].st # "sent"
  /\ tasks' = RemoveAt(tasks, i)
  /\ draggedSound' = Null
  /\ dragOverSound' = Null
  /\ UNCHANGED <<sounds, backendSounds>>
  /\ last' = Ran("resumeMouseUp", Null, tasks[i].st, -1, -1)

\* handleMouseUp after its await: the try's tail or the catch, then the
\* end of the drag session.
ResumeMouseUp(i) ==
  /\ UNCHANGED <<keyVars, queueVars, editVars>>
  /\ i \in 1..Len(tasks)
  /\ tasks[i].fn = "handleMouseUp"
  /\ tasks[i].st # "sent"
  /\ IF tasks[i].st = "ok"
     THEN tasks' = RemoveAt(tasks, i)
     ELSE tasks' = Append(RemoveAt(tasks, i), Task("loadSounds", "get_sounds", <<>>))
  /\ draggedSound' = Null
  /\ dragOverSound' = Null
  /\ UNCHANGED <<sounds, backendSounds>>
  /\ last' = Ran("resumeMouseUp", Null, tasks[i].st, -1, -1)

\* loadSounds after its await: setSounds(soundList), or the catch.
ResumeLoadSounds(i) ==
  /\ UNCHANGED <<keyVars, queueVars, editVars>>
  /\ i \in 1..Len(tasks)
  /\ tasks[i].fn = "loadSounds"
  /\ tasks[i].st # "sent"
  /\ tasks' = RemoveAt(tasks, i)
  /\ IF tasks[i].st = "ok"
     THEN sounds' = tasks[i].res
     ELSE UNCHANGED sounds
  /\ UNCHANGED <<draggedSound, dragOverSound, backendSounds>>
  /\ last' = Ran("resumeLoadSounds", Null, tasks[i].st, -1, -1)

(***************************************************************************)
(* Keybind capture.                                                        *)
(***************************************************************************)
NoSession == "null"
NoSound == [id |-> Null, keybind |-> ""]
StopAllTarget == 0

\* The useState defaults of the keybind state, on a backend with no chord.
KeyIdle ==
  /\ recordingKeybind = NoSession
  /\ stopAllKeybind = ""
  /\ editingSound = NoSound
  /\ libKeybind = <<>>
  /\ registry = {}
  /\ keyTasks = <<>>

\* editingSound.startTime and editingSound.endTime when the sound has none.
Undefined == -1000

\* The useState and useRef defaults of the edit dialog's state and the log.
EditIdle ==
  /\ waveformData = <<>>
  /\ audioDuration = 0
  /\ waveTasks = <<>>
  /\ startTime = Undefined
  /\ endTime = Undefined
  /\ previewAudioRef = Null
  /\ isPreviewPlaying = FALSE
  /\ audios = <<>>
  /\ previewTasks = <<>>
  /\ logs = <<>>

\* The useState defaults of the queue state, on a backend whose queue is
\* empty and idle, with no interval set.
QueueIdle ==
  /\ soundQueue = <<>>
  /\ isQueuePlaying = FALSE
  /\ backendQueue = <<>>
  /\ backendPlaying = FALSE
  /\ timers = {}
  /\ queueTasks = <<>>
  /\ playingSound = Null
  /\ playTimeouts = 0

\* String.prototype.toUpperCase on the key names of the model.
ToUpperCase(key) ==
  CASE key = "a" -> "A"
    [] key = "A" -> "A"
    [] key = "b" -> "B"
    [] key = "z" -> "Z"
    [] key = " " -> " "
    [] key = "1" -> "1"
    [] key = "F5" -> "F5"
    [] key = "Enter" -> "ENTER"
    [] key = "Control" -> "CONTROL"
    [] key = "Alt" -> "ALT"
    [] key = "Shift" -> "SHIFT"
    [] key = "Meta" -> "META"

\* Array.prototype.join(sep).
RECURSIVE Join(_, _)
Join(parts, sep) ==
  IF Len(parts) = 0 THEN ""
  ELSE IF Len(parts) = 1 THEN parts[1]
  ELSE parts[1] \o sep \o Join(Tail(parts), sep)

\* A plausible slip: Shift is pushed before Alt.
formatKeybindShiftFirst(e) ==
  LET key == ToUpperCase(e.key)
      parts == (IF e.ctrlKey THEN <<"Ctrl">> ELSE <<>>)
                 \o (IF e.shiftKey THEN <<"Shift">> ELSE <<>>)
                 \o (IF e.altKey THEN <<"Alt">> ELSE <<>>)
                 \o (IF key \notin {"CONTROL", "ALT", "SHIFT", "META"}
                     THEN <<IF key = " " THEN "Space" ELSE key>>
                     ELSE <<>>)
  IN  Join(parts, "+")

\* formatKeybind(e).
formatKeybind(e) ==
  LET key == ToUpperCase(e.key)
      parts == (IF e.ctrlKey THEN <<"Ctrl">> ELSE <<>>)
                 \o (IF e.altKey THEN <<"Alt">> ELSE <<>>)
                 \o (IF e.shiftKey THEN <<"Shift">> ELSE <<>>)
                 \o (IF key \notin {"CONTROL", "ALT", "SHIFT", "META"}
                     THEN <<IF key = " " THEN "Space" ELSE key>>
                     ELSE <<>>)
  IN  Join(parts, "+")

ModifierKeys == {"Control", "Alt", "Shift", "Meta"}

\* A handleGlobalKeyDown invocation suspended at `await <op>(arg)`:
\* target is the recordingKeybind of its closure and es the editingSound of
\* its closure (which only a sound session reads), old the chord it
\* replaces, new the chord it captured, and tr the calls it has issued and
\* seen return, in order.
KeyTask(target, es, old, new, op, arg) ==
  [target |-> target, es |-> es, old |-> old, new |-> new,
   op |-> op, arg |-> arg,
   tr |-> <<<<op, arg, "issued">>>>]

\* The invocation t, its awaited call returned, awaiting its next call.
NextCall(t, op, arg) ==
  [t EXCEPT !.op = op, !.arg = arg,
            !.tr = t.tr \o <<<<t.op, t.arg, "returned">>, <<op, arg, "issued">>>>]

\* What `last` holds after a step of the keybind state machine that is no
\* key press.
NoHandler == Ran("none", Null, "", -1, -1)

RanKey(e, path) ==
  [op |-> "handleGlobalKeyDown", id |-> Null, path |-> path,
   from |-> -1, to |-> -1, ev |-> e]

\* The settings dialog's stop-all keybind button.
ClickStopAllKeybind ==
  /\ recordingKeybind' = "stopAll"
  /\ UNCHANGED <<stopAllKeybind, editingSound, libKeybind, registry, keyTasks>>
  /\ UNCHANGED <<dragVars, queueVars, editVars>>
  /\ last' = NoHandler

\* A card's edit button: setEditingSound(sound).
OpenEdit(soundId) ==
  /\ \E k \in 1..Len(sounds) : sounds[k] = soundId
  /\ editingSound' = [id |-> soundId, keybind |-> libKeybind[soundId]]
  /\ UNCHANGED <<recordingKeybind, stopAllKeybind, libKeybind, registry, keyTasks>>
  /\ UNCHANGED <<dragVars, queueVars, editVars>>
  /\ last' = NoHandler

\* The edit dialog's overlay and close button: setEditingSound(null).
CloseEdit ==
  /\ editingSound # NoSound
  /\ editingSound' = NoSound
  /\ UNCHANGED <<recordingKeybind, stopAllKeybind, libKeybind, registry, keyTasks>>
  /\ UNCHANGED <<dragVars, queueVars, editVars>>
  /\ last' = NoHandler

\* The edit dialog's keybind button.
ClickSoundKeybind ==
  /\ editingSound # NoSound
  /\ recordingKeybind' = "sound"
  /\ UNCHANGED <<stopAllKeybind, editingSound, libKeybind, registry, keyTasks>>
  /\ UNCHANGED <<dragVars, queueVars, editVars>>
  /\ last' = NoHandler

\* A plausible slip: the old chord is never unregistered.
CaptureKeyNoUnregister(e) ==
  LET keybind == formatKeybind(e)
  IN  IF recordingKeybind = "stopAll"
      THEN /\ stopAllKeybind' = keybind
           /\ keyTasks' = Append(keyTasks,
                KeyTask("stopAll", NoSound, stopAllKeybind, keybind,
                        "register_stop_all_keybind", keybind))
           /\ UNCHANGED <<recordingKeybind, editingSound>>
           /\ last' = RanKey(e, "stopAll")
      ELSE IF recordingKeybind = "sound" /\ editingSound # NoSound
      THEN /\ editingSound' = [editingSound EXCEPT !.keybind = keybind]
           /\ keyTasks' = Append(keyTasks,
                KeyTask("sound", editingSound, editingSound.keybind, keybind,
                        "register_sound_keybind", keybind))
           /\ UNCHANGED <<recordingKeybind, stopAllKeybind>>
           /\ last' = RanKey(e, "sound")
      ELSE /\ recordingKeybind' = NoSession
           /\ UNCHANGED <<stopAllKeybind, editingSound, keyTasks>>
           /\ last' = RanKey(e, "nosound")

\* handleGlobalKeyDown past its two early returns, up to its first await.
CaptureKey(e) ==
  LET keybind == formatKeybind(e)
  IN  IF recordingKeybind = "stopAll"
      THEN /\ IF stopAllKeybind # ""
              THEN /\ keyTasks' = Append(keyTasks,
                        KeyTask("stopAll", NoSound, stopAllKeybind, keybind,
                                "unregister_stop_all_keybind", stopAllKeybind))
                   /\ UNCHANGED stopAllKeybind
              ELSE /\ stopAllKeybind' = keybind
                   /\ keyTasks' = Append(keyTasks,
                        KeyTask("stopAll", NoSound, stopAllKeybind, keybind,
                                "register_stop_all_keybind", keybind))
           /\ UNCHANGED <<recordingKeybind, editingSound>>
           /\ last' = RanKey(e, "stopAll")
      ELSE IF recordingKeybind = "sound" /\ editingSound # NoSound
      THEN /\ IF editingSound.keybind # ""
              THEN /\ keyTasks' = Append(keyTasks,
                        KeyTask("sound", editingSound, editingSound.keybind, keybind,
                                "unregister_sound_keybind", editingSound.keybind))
                   /\ UNCHANGED editingSound
              ELSE /\ editingSound' = [editingSound EXCEPT !.keybind = keybind]
                   /\ keyTasks' = Append(keyTasks,
                        KeyTask("sound", editingSound, editingSound.keybind, keybind,
                                "register_sound_keybind", keybind))
           /\ UNCHANGED <<recordingKeybind, stopAllKeybind>>
           /\ last' = RanKey(e, "sound")
      ELSE /\ recordingKeybind' = NoSession
           /\ UNCHANGED <<stopAllKeybind, editingSound, keyTasks>>
           /\ last' = RanKey(e, "nosound")

\* A plausible slip: a modifier key alone is taken for the chord.
handleGlobalKeyDownNoModifierCheck(e) ==
  /\ UNCHANGED <<libKeybind, registry>>
  /\ UNCHANGED <<dragVars, queueVars, editVars>>
  /\ IF recordingKeybind = NoSession
     THEN /\ UNCHANGED <<recordingKeybind, stopAllKeybind, editingSound, keyTasks>>
          /\ last' = RanKey(e, "ignored")
     ELSE CaptureKey(e)

\* handleGlobalKeyDown(e), up to its first await.
handleGlobalKeyDown(e) ==
  /\ UNCHANGED <<libKeybind, registry>>
  /\ UNCHANGED <<dragVars, queueVars, editVars>>
  /\ IF recordingKeybind = NoSession \/ e.key \in ModifierKeys
     THEN /\ UNCHANGED <<recordingKeybind, stopAllKeybind, editingSound, keyTasks>>
          /\ last' = RanKey(e, "ignored")
     ELSE CaptureKey(e)

\* The backend's side of the keybind calls: a chord is bound to the target
\* it was registered for until it is unregistered, and a call that fails
\* changes nothing.  set_stop_all_keybind stores the chord for the next
\* start; nothing of this run reads it.
KeyBackend(reg, t, ok) ==
  IF ~ok \/ t.op = "set_stop_all_keybind"
  THEN reg
  ELSE IF t.op = "unregister_stop_all_keybind"
  THEN reg \ {<<t.arg, StopAllTarget>>}
  ELSE IF t.op = "register_stop_all_keybind"
  THEN reg \cup {<<t.arg, StopAllTarget>>}
  ELSE IF t.op = "unregister_sound_keybind"
  THEN {b \in reg : ~(b[1] = t.arg /\ b[2] # StopAllTarget)}
  ELSE reg \cup {<<t.arg, t.es.id>>}

\* The error line the wrapper of a call writes with addLog when the call
\* fails, "" when it writes none: registerSoundKeybind and
\* registerStopAllKeybind log the failure, unregisterSoundKeybind and
\* unregisterStopAllKeybind swallow it, and the bare
\* invoke('set_stop_all_keybind') has no catch that could log.
KeyErrorLog(op, ok) ==
  IF ~ok /\ op \in {"register_stop_all_keybind", "register_sound_keybind"}
  THEN "[Keybind] Failed to register"
  ELSE ""

\* A plausible slip: a failed registration leaves the sound session open.
ResumeKeyDownKeepOpen(i, ok) ==
  /\ i \in 1..Len(keyTasks)
  /\ registry' = KeyBackend(registry, keyTasks[i], ok)
  /\ LET t == keyTasks[i]
     IN  IF t.op = "unregister_stop_all_keybind"
         THEN /\ stopAllKeybind' = t.new
              /\ keyTasks' = [keyTasks EXCEPT ![i] = NextCall(t, "register_stop_all_keybind", t.new)]
              /\ UNCHANGED <<recordingKeybind, editingSound>>
         ELSE IF t.op = "register_stop_all_keybind"
         THEN /\ keyTasks' = [keyTasks EXCEPT ![i] = NextCall(t, "set_stop_all_keybind", t.new)]
              /\ UNCHANGED <<recordingKeybind, stopAllKeybind, editingSound>>
         ELSE IF t.op = "set_stop_all_keybind"
         THEN /\ keyTasks' = RemoveAt(keyTasks, i)
              /\ IF ok
                 THEN recordingKeybind' = NoSession
                 ELSE UNCHANGED recordingKeybind
              /\ UNCHANGED <<stopAllKeybind, editingSound>>
         ELSE IF t.op = "unregister_sound_keybind"
         THEN /\ editingSound' = [t.es EXCEPT !.keybind = t.new]
              /\ keyTasks' = [keyTasks EXCEPT ![i] = NextCall(t, "register_sound_keybind", t.new)]
              /\ UNCHANGED <<recordingKeybind, stopAllKeybind>>
         ELSE /\ keyTasks' = RemoveAt(keyTasks, i)
              /\ recordingKeybind' = IF ok THEN NoSession ELSE recordingKeybind
              /\ UNCHANGED <<stopAllKeybind, editingSound>>
  /\ UNCHANGED libKeybind
  /\ UNCHANGED <<dragVars, queueVars, editVars>>
  /\ last' = IF KeyErrorLog(keyTasks[i].op, ok) = "" THEN NoHandler
             ELSE Ran("addLog", Null, KeyErrorLog(keyTasks[i].op, ok), -1, -1)

\* A plausible slip: a failed unregister call is not swallowed and ends
\* the handler where it stands.
ResumeKeyDownUnregisterThrows(i, ok) ==
  /\ i \in 1..Len(keyTasks)
  /\ registry' = KeyBackend(registry, keyTasks[i], ok)
  /\ LET t == keyTasks[i]
     IN  IF t.op \in {"unregister_stop_all_keybind", "unregister_sound_keybind"} /\ ~ok
         THEN /\ keyTasks' = RemoveAt(keyTasks, i)
              /\ UNCHANGED <<recordingKeybind, stopAllKeybind, editingSound>>
         ELSE IF t.op = "unregister_stop_all_keybind"
         THEN /\ stopAllKeybind' = t.new
              /\ keyTasks' = [keyTasks EXCEPT ![i] = NextCall(t, "register_stop_all_keybind", t.new)]
              /\ UNCHANGED <<recordingKeybind, editingSound>>
         ELSE IF t.op = "register_stop_all_keybind"
         THEN /\ keyTasks' = [keyTasks EXCEPT ![i] = NextCall(t, "set_stop_all_keybind", t.new)]
              /\ UNCHANGED <<recordingKeybind, stopAllKeybind, editingSound>>
         ELSE IF t.op = "set_stop_all_keybind"
         THEN /\ keyTasks' = RemoveAt(keyTasks, i)
              /\ IF ok
                 THEN recordingKeybind' = NoSession
                 ELSE UNCHANGED recordingKeybind
              /\ UNCHANGED <<stopAllKeybind, editingSound>>
         ELSE IF t.op = "unregister_sound_keybind"
         THEN /\ editingSound' = [t.es EXCEPT !.keybind = t.new]
              /\ keyTasks' = [keyTasks EXCEPT ![i] = NextCall(t, "register_sound_keybind", t.new)]
              /\ UNCHANGED <<recordingKeybind, stopAllKeybind>>
         ELSE /\ keyTasks' = RemoveAt(keyTasks, i)
              /\ recordingKeybind' = NoSession
              /\ UNCHANGED <<stopAllKeybind, editingSound>>
  /\ UNCHANGED libKeybind
  /\ UNCHANGED <<dragVars, queueVars, editVars>>
  /\ last' = IF KeyErrorLog(keyTasks[i].op, ok) = "" THEN NoHandler
             ELSE Ran("addLog", Null, KeyErrorLog(keyTasks[i].op, ok), -1, -1)

\* handleGlobalKeyDown from the answer to its awaited call to its next
\* await (or its end).  The answer and the continuation are one step:
\* nothing the component does reads the registry.  unregister*Keybind and
\* register*Keybind catch their call's failure; set_stop_all_keybind is
\* awaited bare, so its failure ends the handler where it stands.
ResumeKeyDown(i, ok) ==
  /\ i \in 1..Len(keyTasks)
  /\ registry' = KeyBackend(registry, keyTasks[i], ok)
  /\ LET t == keyTasks[i]
     IN  IF t.op = "unregister_stop_all_keybind"
         THEN /\ stopAllKeybind' = t.new
              /\ keyTasks' = [keyTasks EXCEPT ![i] = NextCall(t, "register_stop_all_keybind", t.new)]
              /\ UNCHANGED <<recordingKeybind, editingSound>>
         ELSE IF t.op = "register_stop_all_keybind"
         THEN /\ keyTasks' = [keyTasks EXCEPT ![i] = NextCall(t, "set_stop_all_keybind", t.new)]
              /\ UNCHANGED <<recordingKeybind, stopAllKeybind, editingSound>>
         ELSE IF t.op = "set_stop_all_keybind"
         THEN /\ keyTasks' = RemoveAt(keyTasks, i)
              /\ IF ok
                 THEN recordingKeybind' = NoSession
                 ELSE UNCHANGED recordingKeybind
              /\ UNCHANGED <<stopAllKeybind, editingSound>>
         ELSE IF t.op = "unregister_sound_keybind"
         THEN /\ editingSound' = [t.es EXCEPT !.keybind = t.new]
              /\ keyTasks' = [keyTasks EXCEPT ![i] = NextCall(t, "register_sound_keybind", t.new)]
              /\ UNCHANGED <<recordingKeybind, stopAllKeybind>>
         ELSE /\ keyTasks' = RemoveAt(keyTasks, i)
              /\ recordingKeybind' = NoSession
              /\ UNCHANGED <<stopAllKeybind, editingSound>>
  /\ UNCHANGED libKeybind
  /\ UNCHANGED <<dragVars, queueVars, editVars>>
  /\ last' = IF KeyErrorLog(keyTasks[i].op, ok) = "" THEN NoHandler
             ELSE Ran("addLog", Null, KeyErrorLog(keyTasks[i].op, ok), -1, -1)

(***************************************************************************)
(* The keybind specification: the component once its mount effect has      *)
(* loaded the settings and the library; the backend has every stored       *)
(* chord registered.                                                       *)
(***************************************************************************)
KeyEvent(key, ctrl, alt, shift) ==
  [key |-> key, ctrlKey |-> ctrl, altKey |-> alt, shiftKey |-> shift]

\* The key presses of the keybind specification.
KeyPresses ==
  {KeyEvent("a", FALSE, FALSE, FALSE), KeyEvent("b", TRUE, FALSE, FALSE),
   KeyEvent("Shift", FALSE, FALSE, TRUE)}

\* The chords the backend may hold at start: one for stop-all, one for the
\* first sound of the library, each present or not.
StoredStopAll == {"", "A"}
StoredSound == {"", "Ctrl+B"}

InitKey ==
  /\ sounds = [k \in 1..MaxKeySounds |-> k]
  /\ backendSounds = sounds
  /\ draggedSound = Null
  /\ dragOverSound = Null
  /\ tasks = <<>>
  /\ recordingKeybind = NoSession
  /\ stopAllKeybind \in StoredStopAll
  /\ editingSound = NoSound
  /\ \E c \in StoredSound : libKeybind = [k \in 1..MaxKeySounds |-> IF k = 1 THEN c ELSE ""]
  /\ registry = (IF stopAllKeybind = "" THEN {} ELSE {<<stopAllKeybind, StopAllTarget>>})
                  \cup {<<libKeybind[k], k>> : k \in {j \in 1..MaxKeySounds : libKeybind[j] # ""}}
  /\ keyTasks = <<>>
  /\ QueueIdle
  /\ EditIdle
  /\ last = NoHandler

NextKey ==
  \/ ClickStopAllKeybind
  \/ \E id \in 1..MaxKeySounds : OpenEdit(id)
  \/ CloseEdit
  \/ ClickSoundKeybind
  \/ \E e \in KeyPresses : Len(keyTasks) < MaxKeyTasks /\ handleGlobalKeyDown(e)
  \/ \E i \in 1..MaxKeyTasks, ok \in BOOLEAN : ResumeKeyDown(i, ok)

SpecKey == InitKey /\ [][NextKey]_vars

\* The keybind specification with key presses that arrive one at a time:
\* a key is pressed when no handler is in flight.
NextKeySeq ==
  \/ ClickStopAllKeybind
  \/ \E id \in 1..MaxKeySounds : OpenEdit(id)
  \/ CloseEdit
  \/ ClickSoundKeybind
  \/ \E e \in KeyPresses : keyTasks = <<>> /\ handleGlobalKeyDown(e)
  \/ \E ok \in BOOLEAN : ResumeKeyDown(1, ok)

SpecKeySeq == InitKey /\ [][NextKeySeq]_vars

\* The keybind specification with key presses that overlap, on a backend
\* none of whose calls fails.
NextKeyRace ==
  \/ ClickStopAllKeybind
  \/ \E id \in 1..MaxKeySounds : OpenEdit(id)
  \/ CloseEdit
  \/ ClickSoundKeybind
  \/ \E e \in KeyPresses : Len(keyTasks) < MaxRaceTasks /\ handleGlobalKeyDown(e)
  \/ \E i \in 1..MaxRaceTasks : ResumeKeyDown(i, TRUE)

SpecKeyRace == InitKey /\ [][NextKeyRace]_vars

(***************************************************************************)
(* The chord specification: a stop-all recording session is open with no   *)
(* chord bound, key presses arrive one at a time, and no call fails.        *)
(***************************************************************************)
Keys == {"a", "A", "z", " ", "1", "F5", "Enter", "Control", "Alt", "Shift", "Meta"}

AllKeyEvents ==
  {KeyEvent(k, c, a, sh) : k \in Keys, c \in BOOLEAN, a \in BOOLEAN, sh \in BOOLEAN}

InitFormat ==
  /\ sounds = <<>>
  /\ backendSounds = <<>>
  /\ draggedSound = Null
  /\ dragOverSound = Null
  /\ tasks = <<>>
  /\ recordingKeybind = "stopAll"
  /\ stopAllKeybind = ""
  /\ editingSound = NoSound
  /\ libKeybind = <<>>
  /\ registry = {}
  /\ keyTasks = <<>>
  /\ QueueIdle
  /\ EditIdle
  /\ last = NoHandler

NextFormat ==
  \/ \E e \in AllKeyEvents : keyTasks = <<>> /\ handleGlobalKeyDown(e)
  \/ ResumeKeyDown(1, TRUE)

SpecFormat == InitFormat /\ [][NextFormat]_vars

(***************************************************************************)
(* The drag specification: the component after construction, its mount     *)
(* effect having called loadSounds on a backend that holds n sounds.       *)
(***************************************************************************)
InitDrag ==
  /\ sounds = <<>>
  /\ draggedSound = Null
  /\ dragOverSound = Null
  /\ \E n \in 0..MaxSounds : backendSounds = [k \in 1..n |-> k]
  /\ tasks = <<Task("loadSounds", "get_sounds", <<>>)>>
  /\ KeyIdle
  /\ QueueIdle
  /\ EditIdle
  /\ last = Ran("init", Null, "init", -1, -1)

NextDrag ==
  \/ \E id \in SoundIds, button \in {0, 2}, onEditBtn \in BOOLEAN :
       handleMouseDown(id, button, onEditBtn)
  \/ \E id \in SoundIds : handleMouseEnter(id)
  \/ handleMouseLeave
  \/ \E id \in SoundIds : handleMouseUp(id)
  \/ handleGlobalMouseUp
  \/ \E i \in 1..MaxTasks, ok \in BOOLEAN : BackendAnswer(i, ok)
  \/ \E i \in 1..MaxTasks : ResumeMouseUp(i)
  \/ \E i \in 1..MaxTasks : ResumeLoadSounds(i)

SpecDrag == InitDrag /\ [][NextDrag]_vars

\* The backend answers every call, and a resolved promise resumes its
\* function: the event loop runs every ready continuation.
FairDrag ==
  /\ WF_vars(\E i \in 1..MaxTasks, ok \in BOOLEAN : BackendAnswer(i, ok))
  /\ WF_vars(\E i \in 1..MaxTasks : ResumeMouseUp(i))
  /\ WF_vars(\E i \in 1..MaxTasks : ResumeLoadSounds(i))

SpecDragFair == InitDrag /\ [][NextDrag]_vars /\ FairDrag

(***************************************************************************)
(* The reorder specification: a loaded library of n sounds in any order, a *)
(* drag in progress on any card, then the release.                         *)
(***************************************************************************)
Orderings(n) ==
  {f \in [1..n -> 1..n] : \A a, b \in 1..n : a # b => f[a] # f[b]}

InitReorder ==
  \E n \in 1..MaxListLen :
    /\ sounds \in Orderings(n)
    /\ draggedSound \in 1..n
    /\ dragOverSound \in (0..n) \ {draggedSound}
    /\ backendSounds = sounds
    /\ tasks = <<>>
    /\ KeyIdle
    /\ QueueIdle
    /\ EditIdle
    /\ last = Ran("handleMouseDown", Null, "start", -1, -1)

NextReorder ==
  \E id \in 1..MaxListLen : handleMouseUp(id)

SpecReorder == InitReorder /\ [][NextReorder]_vars

(***************************************************************************)
(* The playback queue.                                                     *)
(***************************************************************************)
MaxQueueSounds == 1  \* sounds that are queued
MaxQueueLen == 2     \* entries of the backend's queue
MaxQueueTasks == 1   \* queue and stop-all invocations in flight at once
MaxTimers == 1       \* checkQueue intervals alive at once
MaxRaceQueueTasks == 2 \* the same, in the specification of overlapping calls
MaxRaceTimers == 2     \* the same, in the specification of overlapping calls

QueueSoundIds == 1..MaxQueueSounds

RanQueue(op, id, path) == Ran(op, id, path, -1, -1)

\* The interval ids that a live interval or a tick in flight holds.
TimersInUse ==
  timers \cup {queueTasks[k].arg : k \in {j \in 1..Len(queueTasks) : queueTasks[j].fn = "checkQueue"}}

\* The id setInterval returns: one that nothing holds any more.
NewTimerId ==
  CHOOSE id \in 1..(Cardinality(TimersInUse) + 1) :
    id \notin TimersInUse /\ \A other \in 1..(id - 1) : other \in TimersInUse

\* stopAllSounds(), up to its await.
stopAllSounds ==
  /\ queueTasks' = Append(queueTasks, Task("stopAllSounds", "stop_all", Null))
  /\ UNCHANGED <<soundQueue, isQueuePlaying, backendQueue, backendPlaying, timers>>
  /\ UNCHANGED <<dragVars, keyVars, editVars, playVars>>
  /\ last' = RanQueue("stopAllSounds", Null, "sent")

\* A plausible slip: the state is reset in a finally, whatever stop_all
\* answered.
ResumeStopAllSoundsFinally(i) ==
  /\ i \in 1..Len(queueTasks)
  /\ queueTasks[i].fn = "stopAllSounds"
  /\ queueTasks[i].st # "sent"
  /\ playingSound' = Null
  /\ isQueuePlaying' = FALSE
  /\ soundQueue' = <<>>
  /\ queueTasks' = RemoveAt(queueTasks, i)
  /\ UNCHANGED <<backendQueue, backendPlaying, timers, playTimeouts>>
  /\ UNCHANGED <<dragVars, keyVars, editVars>>
  /\ last' = RanQueue("resumeStopAllSounds", Null, queueTasks[i].st)

\* stopAllSounds(), after its await.
ResumeStopAllSounds(i) ==
  /\ i \in 1..Len(queueTasks)
  /\ queueTasks[i].fn = "stopAllSounds"
  /\ queueTasks[i].st # "sent"
  /\ IF queueTasks[i].st = "ok"
     THEN /\ playingSound' = Null
          /\ isQueuePlaying' = FALSE
          /\ soundQueue' = <<>>
     ELSE UNCHANGED <<playingSound, isQueuePlaying, soundQueue>>
  /\ queueTasks' = RemoveAt(queueTasks, i)
  /\ UNCHANGED <<backendQueue, backendPlaying, timers, playTimeouts>>
  /\ UNCHANGED <<dragVars, keyVars, editVars>>
  /\ last' = RanQueue("resumeStopAllSounds", Null, queueTasks[i].st)

\* addToQueue(soundId), up to its await.
addToQueue(soundId) ==
  /\ queueTasks' = Append(queueTasks, Task("addToQueue", "add_to_queue", soundId))
  /\ UNCHANGED <<soundQueue, isQueuePlaying, backendQueue, backendPlaying, timers>>
  /\ UNCHANGED <<dragVars, keyVars, editVars, playVars>>
  /\ last' = RanQueue("addToQueue", soundId, "sent")

\* A plausible slip: the queue is computed locally, by appending.
ResumeAddToQueueLocalAppend(i) ==
  /\ i \in 1..Len(queueTasks)
  /\ queueTasks[i].fn = "addToQueue"
  /\ queueTasks[i].st # "sent"
  /\ IF queueTasks[i].st = "ok"
     THEN soundQueue' = Append(soundQueue, queueTasks[i].arg)
     ELSE UNCHANGED soundQueue
  /\ queueTasks' = RemoveAt(queueTasks, i)
  /\ UNCHANGED <<isQueuePlaying, backendQueue, backendPlaying, timers>>
  /\ UNCHANGED <<dragVars, keyVars, editVars, playVars>>
  /\ last' = RanQueue("resumeAddToQueue", queueTasks[i].arg, queueTasks[i].st)

\* addToQueue(soundId), after its await.
ResumeAddToQueue(i) ==
  /\ i \in 1..Len(queueTasks)
  /\ queueTasks[i].fn = "addToQueue"
  /\ queueTasks[i].st # "sent"
  /\ IF queueTasks[i].st = "ok"
     THEN soundQueue' = queueTasks[i].res
     ELSE UNCHANGED soundQueue
  /\ queueTasks' = RemoveAt(queueTasks, i)
  /\ UNCHANGED <<isQueuePlaying, backendQueue, backendPlaying, timers>>
  /\ UNCHANGED <<dragVars, keyVars, editVars, playVars>>
  /\ last' = RanQueue("resumeAddToQueue", queueTasks[i].arg, queueTasks[i].st)

\* clearQueue(), up to its await.
clearQueue ==
  /\ queueTasks' = Append(queueTasks, Task("clearQueue", "clear_queue", Null))
  /\ UNCHANGED <<soundQueue, isQueuePlaying, backendQueue, backendPlaying, timers>>
  /\ UNCHANGED <<dragVars, keyVars, editVars, playVars>>
  /\ last' = RanQueue("clearQueue", Null, "sent")

\* clearQueue(), after its await.
ResumeClearQueue(i) ==
  /\ i \in 1..Len(queueTasks)
  /\ queueTasks[i].fn = "clearQueue"
  /\ queueTasks[i].st # "sent"
  /\ IF queueTasks[i].st = "ok"
     THEN /\ soundQueue' = <<>>
          /\ isQueuePlaying' = FALSE
     ELSE UNCHANGED <<soundQueue, isQueuePlaying>>
  /\ queueTasks' = RemoveAt(queueTasks, i)
  /\ UNCHANGED <<backendQueue, backendPlaying, timers>>
  /\ UNCHANGED <<dragVars, keyVars, editVars, playVars>>
  /\ last' = RanQueue("resumeClearQueue", Null, queueTasks[i].st)

\* A plausible slip: the queue is played without the check for an empty one.
playQueueNoEmptyCheck ==
  /\ isQueuePlaying' = TRUE
  /\ queueTasks' = Append(queueTasks, Task("playQueue", "play_queue", Null))
  /\ UNCHANGED <<soundQueue, backendQueue, backendPlaying, timers>>
  /\ UNCHANGED <<dragVars, keyVars, editVars, playVars>>
  /\ last' = RanQueue("playQueue", Null, IF soundQueue = <<>> THEN "empty" ELSE "sent")

\* playQueue(), up to its await.
playQueue ==
  /\ IF Len(soundQueue) = 0
     THEN /\ UNCHANGED <<isQueuePlaying, queueTasks>>
          /\ last' = RanQueue("playQueue", Null, "empty")
     ELSE /\ isQueuePlaying' = TRUE
          /\ queueTasks' = Append(queueTasks, Task("playQueue", "play_queue", Null))
          /\ last' = RanQueue("playQueue", Null, "sent")
  /\ UNCHANGED <<soundQueue, backendQueue, backendPlaying, timers>>
  /\ UNCHANGED <<dragVars, keyVars, editVars, playVars>>

\* playQueue(), after its await: setInterval(checkQueue, 500), or the catch.
ResumePlayQueue(i) ==
  /\ i \in 1..Len(queueTasks)
  /\ queueTasks[i].fn = "playQueue"
  /\ queueTasks[i].st # "sent"
  /\ IF queueTasks[i].st = "ok"
     THEN /\ timers' = timers \cup {NewTimerId}
          /\ UNCHANGED isQueuePlaying
          /\ last' = RanQueue("resumePlayQueue", NewTimerId, "ok")
     ELSE /\ isQueuePlaying' = FALSE
          /\ UNCHANGED timers
          /\ last' = RanQueue("resumePlayQueue", Null, "err")
  /\ queueTasks' = RemoveAt(queueTasks, i)
  /\ UNCHANGED <<soundQueue, backendQueue, backendPlaying>>
  /\ UNCHANGED <<dragVars, keyVars, editVars, playVars>>

\* A tick of the interval id: checkQueue, up to its await.
PollTick(id) ==
  /\ id \in timers
  /\ queueTasks' = Append(queueTasks, Task("checkQueue", "is_queue_playing", id))
  /\ UNCHANGED <<soundQueue, isQueuePlaying, backendQueue, backendPlaying, timers>>
  /\ UNCHANGED <<dragVars, keyVars, editVars, playVars>>
  /\ last' = RanQueue("checkQueue", id, "sent")

\* A plausible slip: a poll that fails is taken for a finished queue.
ResumePollFailureFinishes(i) ==
  /\ i \in 1..Len(queueTasks)
  /\ queueTasks[i].fn = "checkQueue"
  /\ queueTasks[i].st # "sent"
  /\ IF queueTasks[i].st = "err" \/ queueTasks[i].res = <<FALSE>>
     THEN /\ isQueuePlaying' = FALSE
          /\ soundQueue' = <<>>
          /\ timers' = timers \ {queueTasks[i].arg}
          /\ last' = RanQueue("resumeCheckQueue", queueTasks[i].arg,
                              IF queueTasks[i].st = "err" THEN "err" ELSE "finished")
     ELSE /\ UNCHANGED <<isQueuePlaying, soundQueue, timers>>
          /\ last' = RanQueue("resumeCheckQueue", queueTasks[i].arg, "playing")
  /\ queueTasks' = RemoveAt(queueTasks, i)
  /\ UNCHANGED <<backendQueue, backendPlaying>>
  /\ UNCHANGED <<dragVars, keyVars, editVars, playVars>>

\* checkQueue, after its await.  The callback has no catch: a rejected
\* call ends it where it stands.
ResumePoll(i) ==
  /\ i \in 1..Len(queueTasks)
  /\ queueTasks[i].fn = "checkQueue"
  /\ queueTasks[i].st # "sent"
  /\ IF queueTasks[i].st = "ok" /\ queueTasks[i].res = <<FALSE>>
     THEN /\ isQueuePlaying' = FALSE
          /\ soundQueue' = <<>>
          /\ timers' = timers \ {queueTasks[i].arg}
          /\ last' = RanQueue("resumeCheckQueue", queueTasks[i].arg, "finished")
     ELSE /\ UNCHANGED <<isQueuePlaying, soundQueue, timers>>
          /\ last' = RanQueue("resumeCheckQueue", queueTasks[i].arg,
                              IF queueTasks[i].st = "err" THEN "err" ELSE "playing")
  /\ queueTasks' = RemoveAt(queueTasks, i)
  /\ UNCHANGED <<backendQueue, backendPlaying>>
  /\ UNCHANGED <<dragVars, keyVars, editVars, playVars>>

\* The backend's side of the queue calls: add_to_queue appends and answers
\* its queue, clear_queue empties it, play_queue starts playing it,
\* is_queue_playing answers whether it still plays, stop_all stops it and
\* keeps or drops what is queued, and a call that fails changes nothing.
QueueAnswer(i, ok, drop) ==
  /\ i \in 1..Len(queueTasks)
  /\ queueTasks[i].st = "sent"
  /\ drop => (ok /\ queueTasks[i].op = "stop_all")
  /\ LET t == queueTasks[i]
         queue == IF ~ok THEN backendQueue
                  ELSE IF t.op = "add_to_queue" THEN Append(backendQueue, t.arg)
                  ELSE IF t.op = "clear_queue" \/ drop THEN <<>>
                  ELSE backendQueue
         playing == IF ~ok THEN backendPlaying
                    ELSE IF t.op = "play_queue" THEN TRUE
                    ELSE IF t.op = "stop_all" THEN FALSE
                    ELSE backendPlaying
         res == IF ~ok THEN <<>>
                ELSE IF t.op = "add_to_queue" THEN queue
                ELSE IF t.op = "is_queue_playing" THEN <<backendPlaying>>
                ELSE <<>>
     IN  /\ backendQueue' = queue
         /\ backendPlaying' = playing
         /\ queueTasks' = [queueTasks EXCEPT ![i] =
                             [t EXCEPT !.st = IF ok THEN "ok" ELSE "err", !.res = res]]
  /\ UNCHANGED <<soundQueue, isQueuePlaying, timers>>
  /\ UNCHANGED <<dragVars, keyVars, editVars, playVars>>
  /\ last' = RanQueue("backend", Null, queueTasks[i].op)

\* The backend has played the queue to its end.
QueueFinishes ==
  /\ backendPlaying
  /\ backendPlaying' = FALSE
  /\ backendQueue' = <<>>
  /\ UNCHANGED <<soundQueue, isQueuePlaying, timers, queueTasks>>
  /\ UNCHANGED <<dragVars, keyVars, editVars, playVars>>
  /\ last' = RanQueue("backend", Null, "finished")

\* The add_to_queue calls in flight that the backend has not answered.
AddsInFlight ==
  Cardinality({k \in 1..Len(queueTasks) :
                 queueTasks[k].op = "add_to_queue" /\ queueTasks[k].st = "sent"})

(***************************************************************************)
(* The queue specification: a loaded library, the queue controls as the    *)
(* interface offers them (Play Queue and Clear are rendered while the      *)
(* local queue holds a sound and are disabled while it plays), the         *)
(* interval ticks and the backend.                                          *)
(***************************************************************************)
InitQueue ==
  /\ sounds = [k \in 1..MaxQueueSounds |-> k]
  /\ backendSounds = sounds
  /\ draggedSound = Null
  /\ dragOverSound = Null
  /\ tasks = <<>>
  /\ KeyIdle
  /\ QueueIdle
  /\ EditIdle
  /\ last = RanQueue("init", Null, "init")

\* What the interface always offers, the interval ticks, the backend and
\* the continuations, with at most maxTasks calls in flight and maxTimers
\* interval ids in use.
QueueCalls(maxTasks, maxTimers) ==
  \/ \E id \in QueueSoundIds :
       /\ Len(queueTasks) < maxTasks
       /\ Len(backendQueue) + AddsInFlight < MaxQueueLen
       /\ addToQueue(id)
  \/ Len(queueTasks) < maxTasks /\ stopAllSounds
  \/ \E id \in 1..maxTimers : Len(queueTasks) < maxTasks /\ PollTick(id)
  \/ \E i \in 1..maxTasks, ok \in BOOLEAN, drop \in BOOLEAN : QueueAnswer(i, ok, drop)
  \/ QueueFinishes
  \/ \E i \in 1..maxTasks : ResumeAddToQueue(i)
  \/ \E i \in 1..maxTasks : ResumeClearQueue(i)
  \/ \E i \in 1..maxTasks :
       /\ i <= Len(queueTasks)
       /\ queueTasks[i].st = "ok" => Cardinality(TimersInUse) < maxTimers
       /\ ResumePlayQueue(i)
  \/ \E i \in 1..maxTasks : ResumePoll(i)
  \/ \E i \in 1..maxTasks : ResumeStopAllSounds(i)

\* The Play Queue and Clear buttons: rendered while the local queue holds a
\* sound, disabled while it plays.
QueueButtons(maxTasks) ==
  \/ Len(queueTasks) < maxTasks /\ Len(soundQueue) > 0 /\ ~isQueuePlaying /\ clearQueue
  \/ Len(queueTasks) < maxTasks /\ Len(soundQueue) > 0 /\ ~isQueuePlaying /\ playQueue

NextQueue ==
  \/ QueueCalls(MaxQueueTasks, MaxTimers)
  \/ QueueButtons(MaxQueueTasks)

SpecQueue == InitQueue /\ [][NextQueue]_vars

\* The same with calls that overlap.
NextQueueRace ==
  \/ QueueCalls(MaxRaceQueueTasks, MaxRaceTimers)
  \/ QueueButtons(MaxRaceQueueTasks)

SpecQueueRace == InitQueue /\ [][NextQueueRace]_vars

\* The queue specification with playQueue and clearQueue called in any
\* state, as the functions allow.
NextQueueCall ==
  \/ QueueCalls(MaxQueueTasks, MaxTimers)
  \/ Len(queueTasks) < MaxQueueTasks /\ clearQueue
  \/ Len(queueTasks) < MaxQueueTasks /\ playQueue

SpecQueueCall == InitQueue /\ [][NextQueueCall]_vars

(***************************************************************************)
(* Removing a sound and saving an edit.  The backend's stored settings of  *)
(* a sound are not part of the state: update_sound_keybind,                *)
(* update_sound_settings and update_sound_trim answer or fail.             *)
(***************************************************************************)
\* removeSound(soundId), up to its await; the dialog's Remove button calls
\* it with editingSound.id.
removeSound(soundId) ==
  /\ editingSound # NoSound
  /\ soundId = editingSound.id
  /\ tasks' = Append(tasks, Task("removeSound", "remove_sound", soundId))
  /\ UNCHANGED <<sounds, draggedSound, dragOverSound, backendSounds>>
  /\ UNCHANGED <<keyVars, queueVars, editVars>>
  /\ last' = Ran("removeSound", soundId, "sent", -1, -1)

\* A plausible slip: the dialog is closed and the list reloaded in a
\* finally, whatever remove_sound answered.
ResumeRemoveSoundFinally(i) ==
  /\ i \in 1..Len(tasks)
  /\ tasks[i].fn = "removeSound"
  /\ tasks[i].st # "sent"
  /\ editingSound' = NoSound
  /\ tasks' = Append(RemoveAt(tasks, i), Task("loadSounds", "get_sounds", <<>>))
  /\ UNCHANGED <<sounds, draggedSound, dragOverSound, backendSounds>>
  /\ UNCHANGED <<recordingKeybind, stopAllKeybind, libKeybind, registry, keyTasks>>
  /\ UNCHANGED <<queueVars, editVars>>
  /\ last' = Ran("resumeRemoveSound", tasks[i].arg, tasks[i].st, -1, -1)

\* removeSound(soundId), after its await: setEditingSound(null) and
\* loadSounds(), or the catch.
ResumeRemoveSound(i) ==
  /\ i \in 1..Len(tasks)
  /\ tasks[i].fn = "removeSound"
  /\ tasks[i].st # "sent"
  /\ IF tasks[i].st = "ok"
     THEN /\ editingSound' = NoSound
          /\ tasks' = Append(RemoveAt(tasks, i), Task("loadSounds", "get_sounds", <<>>))
     ELSE /\ UNCHANGED editingSound
          /\ tasks' = RemoveAt(tasks, i)
  /\ UNCHANGED <<sounds, draggedSound, dragOverSound, backendSounds>>
  /\ UNCHANGED <<recordingKeybind, stopAllKeybind, libKeybind, registry, keyTasks>>
  /\ UNCHANGED <<queueVars, editVars>>
  /\ last' = Ran("resumeRemoveSound", tasks[i].arg, tasks[i].st, -1, -1)

\* saveEditingSound(), up to the await inside updateSoundKeybind; the call
\* keeps the editingSound it was made with.
saveEditingSound ==
  /\ IF editingSound = NoSound
     THEN /\ UNCHANGED tasks
          /\ last' = Ran("saveEditingSound", Null, "noedit", -1, -1)
     ELSE /\ tasks' = Append(tasks, Task("saveEditingSound", "update_sound_keybind",
                                          editingSound))
          /\ last' = Ran("saveEditingSound", editingSound.id, "sent", -1, -1)
  /\ UNCHANGED <<sounds, draggedSound, dragOverSound, backendSounds>>
  /\ UNCHANGED <<keyVars, queueVars, editVars>>

\* A plausible slip: updateSoundKeybind rethrows, so that a failed keybind
\* update ends the save in the catch.
ResumeSaveEditingSoundRethrow(i) ==
  /\ i \in 1..Len(tasks)
  /\ tasks[i].fn = "saveEditingSound"
  /\ tasks[i].st # "sent"
  /\ LET t == tasks[i]
         rest == RemoveAt(tasks, i)
     IN  IF t.st = "err"
         THEN /\ tasks' = rest
              /\ editingSound' = NoSound
         ELSE IF t.op = "update_sound_keybind"
         THEN /\ tasks' = Append(Append(rest, Task("loadSounds", "get_sounds", <<>>)),
                                 Task("saveEditingSound", "update_sound_settings", t.arg))
              /\ UNCHANGED editingSound
         ELSE IF t.op = "update_sound_settings"
         THEN /\ tasks' = Append(rest, Task("saveEditingSound", "update_sound_trim", t.arg))
              /\ UNCHANGED editingSound
         ELSE /\ tasks' = Append(rest, Task("loadSounds", "get_sounds", <<>>))
              /\ editingSound' = NoSound
  /\ UNCHANGED <<sounds, draggedSound, dragOverSound, backendSounds>>
  /\ UNCHANGED <<recordingKeybind, stopAllKeybind, libKeybind, registry, keyTasks>>
  /\ UNCHANGED <<queueVars, editVars>>
  /\ last' = Ran("resumeSaveEditingSound", tasks[i].arg.id,
                 IF tasks[i].st = "err" THEN "err" ELSE "ok", -1, -1)
       @@ [call |-> tasks[i].op]

\* saveEditingSound(), after an await.  After update_sound_keybind:
\* updateSoundKeybind calls loadSounds() on success and logs on failure,
\* returns, and update_sound_settings is called.  After
\* update_sound_settings: update_sound_trim is called.  After
\* update_sound_trim: loadSounds().  The catch of a failed settings or trim
\* call logs.  setEditingSound(null) ends the function on both paths.
ResumeSaveEditingSound(i) ==
  /\ i \in 1..Len(tasks)
  /\ tasks[i].fn = "saveEditingSound"
  /\ tasks[i].st # "sent"
  /\ LET t == tasks[i]
         rest == RemoveAt(tasks, i)
     IN  IF t.op = "update_sound_keybind"
         THEN /\ tasks' = Append(IF t.st = "ok"
                                 THEN Append(rest, Task("loadSounds", "get_sounds", <<>>))
                                 ELSE rest,
                                 Task("saveEditingSound", "update_sound_settings", t.arg))
              /\ UNCHANGED editingSound
         ELSE IF t.st = "err"
         THEN /\ tasks' = rest
              /\ editingSound' = NoSound
         ELSE IF t.op = "update_sound_settings"
         THEN /\ tasks' = Append(rest, Task("saveEditingSound", "update_sound_trim", t.arg))
              /\ UNCHANGED editingSound
         ELSE /\ tasks' = Append(rest, Task("loadSounds", "get_sounds", <<>>))
              /\ editingSound' = NoSound
  /\ UNCHANGED <<sounds, draggedSound, dragOverSound, backendSounds>>
  /\ UNCHANGED <<recordingKeybind, stopAllKeybind, libKeybind, registry, keyTasks>>
  /\ UNCHANGED <<queueVars, editVars>>
  /\ last' = Ran("resumeSaveEditingSound", tasks[i].arg.id,
                 IF tasks[i].st = "err" THEN "err" ELSE "ok", -1, -1)
       @@ [call |-> tasks[i].op]

\* The library specification: a loaded library, the edit dialog opened and
\* closed, its Save and Remove buttons, the backend and the continuations;
\* a button is pressed while no call is in flight.
InitLibrary ==
  /\ sounds = [k \in 1..MaxSounds |-> k]
  /\ backendSounds = sounds
  /\ draggedSound = Null
  /\ dragOverSound = Null
  /\ tasks = <<>>
  /\ recordingKeybind = NoSession
  /\ stopAllKeybind = ""
  /\ editingSound = NoSound
  /\ libKeybind \in [1..MaxSounds -> StoredSound]
  /\ registry = {}
  /\ keyTasks = <<>>
  /\ QueueIdle
  /\ EditIdle
  /\ last = NoHandler

NextLibrary ==
  \/ \E id \in SoundIds : OpenEdit(id)
  \/ CloseEdit
  \/ \E id \in SoundIds : tasks = <<>> /\ removeSound(id)
  \/ tasks = <<>> /\ editingSound # NoSound /\ saveEditingSound
  \/ \E i \in 1..Len(tasks), ok \in BOOLEAN : BackendAnswer(i, ok)
  \/ \E i \in 1..Len(tasks) : ResumeRemoveSound(i)
  \/ \E i \in 1..Len(tasks) : ResumeSaveEditingSound(i)
  \/ \E i \in 1..Len(tasks) : ResumeLoadSounds(i)

SpecLibrary == InitLibrary /\ [][NextLibrary]_vars

(***************************************************************************)
(* Playback of a single sound.                                             *)
(***************************************************************************)
MaxPlayTimeouts == 1  \* setTimeout callbacks of playSound pending at once

\* playSound(soundId), up to its first await; overlapMode is the setting
\* the call reads.
playSound(soundId, overlapMode) ==
  /\ IF ~overlapMode
     THEN /\ queueTasks' = Append(queueTasks, Task("playSound", "stop_all", soundId))
          /\ UNCHANGED playingSound
     ELSE /\ playingSound' = soundId
          /\ queueTasks' = Append(queueTasks, Task("playSound", "play_sound", soundId))
  /\ UNCHANGED <<soundQueue, isQueuePlaying, backendQueue, backendPlaying,
                 timers, playTimeouts>>
  /\ UNCHANGED <<dragVars, keyVars, editVars>>
  /\ last' = RanQueue("playSound", soundId, IF overlapMode THEN "play" ELSE "stop")

\* playSound(soundId), after an await: after stop_all the card is marked
\* and play_sound is called, after play_sound the timeout is set; the
\* catch unmarks the card.
ResumePlaySound(i) ==
  /\ i \in 1..Len(queueTasks)
  /\ queueTasks[i].fn = "playSound"
  /\ queueTasks[i].st # "sent"
  /\ IF queueTasks[i].st = "err"
     THEN /\ playingSound' = Null
          /\ queueTasks' = RemoveAt(queueTasks, i)
          /\ UNCHANGED playTimeouts
     ELSE IF queueTasks[i].op = "stop_all"
     THEN /\ playingSound' = queueTasks[i].arg
          /\ queueTasks' = [queueTasks EXCEPT
                              ![i] = Task("playSound", "play_sound", queueTasks[i].arg)]
          /\ UNCHANGED playTimeouts
     ELSE /\ playTimeouts' = playTimeouts + 1
          /\ queueTasks' = RemoveAt(queueTasks, i)
          /\ UNCHANGED playingSound
  /\ UNCHANGED <<soundQueue, isQueuePlaying, backendQueue, backendPlaying, timers>>
  /\ UNCHANGED <<dragVars, keyVars, editVars>>
  /\ last' = RanQueue("resumePlaySound", queueTasks[i].arg,
                      IF queueTasks[i].st = "err" THEN "err" ELSE queueTasks[i].op)

\* The timeout playSound has set, three seconds later.
PlayTimeout ==
  /\ playTimeouts > 0
  /\ playingSound' = Null
  /\ playTimeouts' = playTimeouts - 1
  /\ UNCHANGED <<soundQueue, isQueuePlaying, backendQueue, backendPlaying,
                 timers, queueTasks>>
  /\ UNCHANGED <<dragVars, keyVars, editVars>>
  /\ last' = RanQueue("playTimeout", Null, "fired")

\* The playback specification: the cards' play buttons, the queue controls
\* as the interface offers them, the interval ticks, the timeout and the
\* backend, each handler called while no call is in flight.
NextPlayback ==
  \/ \E id \in QueueSoundIds, overlapMode \in BOOLEAN :
       queueTasks = <<>> /\ playSound(id, overlapMode)
  \/ \E id \in QueueSoundIds :
       queueTasks = <<>> /\ Len(backendQueue) < MaxQueueLen /\ addToQueue(id)
  \/ queueTasks = <<>> /\ stopAllSounds
  \/ queueTasks = <<>> /\ Len(soundQueue) > 0 /\ ~isQueuePlaying /\ clearQueue
  \/ queueTasks = <<>> /\ Len(soundQueue) > 0 /\ ~isQueuePlaying /\ playQueue
  \/ \E id \in timers : queueTasks = <<>> /\ PollTick(id)
  \/ \E i \in 1..Len(queueTasks), ok \in BOOLEAN, drop \in BOOLEAN :
       QueueAnswer(i, ok, drop)
  \/ QueueFinishes
  \/ \E i \in 1..Len(queueTasks) : ResumeAddToQueue(i)
  \/ \E i \in 1..Len(queueTasks) : ResumeClearQueue(i)
  \/ \E i \in 1..Len(queueTasks) :
       /\ queueTasks[i].st = "ok" => Cardinality(TimersInUse) < MaxTimers
       /\ ResumePlayQueue(i)
  \/ \E i \in 1..Len(queueTasks) : ResumePoll(i)
  \/ \E i \in 1..Len(queueTasks) : ResumeStopAllSounds(i)
  \/ \E i \in 1..Len(queueTasks) :
       /\ (queueTasks[i].st = "ok" /\ queueTasks[i].op = "play_sound")
            => playTimeouts < MaxPlayTimeouts
       /\ ResumePlaySound(i)
  \/ PlayTimeout

SpecPlayback == InitQueue /\ [][NextPlayback]_vars

(***************************************************************************)
(* Waveform analysis.  A JavaScript number that the analysis can produce   *)
(* is a record [n, d]: the fraction n/d in lowest terms when d > 0, NaN    *)
(* when n = d = 0 and Infinity when n = 1, d = 0.  Samples are integers,   *)
(* in units of 1/MaxAmp of full scale; no number here is negative, since   *)
(* every sample passes through Math.abs.                                   *)
(***************************************************************************)
samples == 200

RECURSIVE GCD(_, _)
GCD(a, b) == IF b = 0 THEN a ELSE GCD(b, a % b)

NaN == [n |-> 0, d |-> 0]
Infinity == [n |-> 1, d |-> 0]
IsNaN(x) == x.n = 0 /\ x.d = 0
IsFinite(x) == x.d > 0

\* n / d for two non-negative integers, as the division of two numbers
\* gives it: 0 / 0 is NaN and n / 0 is Infinity.
Quotient(n, d) ==
  IF d = 0 THEN (IF n = 0 THEN NaN ELSE Infinity)
  ELSE [n |-> n \div GCD(n, d), d |-> d \div GCD(n, d)]

\* a / b for two numbers.
Div(a, b) ==
  IF IsNaN(a) \/ IsNaN(b) THEN NaN
  ELSE IF ~IsFinite(a) THEN (IF IsFinite(b) THEN Infinity ELSE NaN)
  ELSE IF ~IsFinite(b) THEN Quotient(0, 1)
  ELSE Quotient(a.n * b.d, a.d * b.n)

\* a <= b for two numbers that are not NaN.
Leq(a, b) == a.n * b.d <= b.n * a.d

Abs(x) == IF x < 0 THEN -x ELSE x

\* The inner loop of loadWaveform: the sum of Math.abs(channelData[i *
\* blockSize + j]) over the first count values of j.
RECURSIVE BlockSum(_, _, _, _)
BlockSum(channelData, i, blockSize, count) ==
  IF count = 0 THEN 0
  ELSE BlockSum(channelData, i, blockSize, count - 1)
         + Abs(channelData[i * blockSize + (count - 1) + 1])

\* The array waveform of loadWaveform: samples buckets, bucket i (from 0)
\* being sum / blockSize of its block.
Waveform(channelData) ==
  LET blockSize == Len(channelData) \div samples
  IN [i \in 1..samples |->
        Quotient(BlockSum(channelData, i - 1, blockSize, blockSize), blockSize)]

\* Math.max(...waveform): NaN when an argument is NaN, otherwise the
\* greatest of the values.
MathMax(waveform) ==
  LET values == {waveform[i] : i \in 1..Len(waveform)}
  IN IF NaN \in values THEN NaN
     ELSE CHOOSE x \in values : \A y \in values : Leq(y, x)

\* waveform.map(v => v / max)
Normalized(waveform) ==
  LET max == MathMax(waveform)
  IN [i \in 1..Len(waveform) |-> Div(waveform[i], max)]

\* The decoded audio of a file: len samples of channel 0, every one of
\* them base but the one at pos, which is amp; and its duration.
ChannelData(audioBuffer) ==
  [j \in 1..audioBuffer.len |->
     IF j = audioBuffer.pos THEN audioBuffer.amp ELSE audioBuffer.base]

NoBuffer == [len |-> 0, pos |-> 0, amp |-> 0, base |-> 0, duration |-> 0]

\* The sample counts decoded: fewer than samples, a multiple of samples,
\* and one more than a multiple.
WaveLens ==
  {1, samples - 1} \cup {k * samples + r : k \in 1..MaxBlockSize, r \in {0, 1}}

AudioBuffers(durations) ==
  {[len |-> l, pos |-> p, amp |-> a, base |-> b, duration |-> d] :
     l \in WaveLens, p \in {1, MaxBlockSize * samples + 1}, a \in (-MaxAmp)..MaxAmp,
     b \in 0..1, d \in durations}

(***************************************************************************)
(* The edit dialog: its waveform and its trim preview.  An Audio element   *)
(* is a record of audios: paused and ended as the element reports them,    *)
(* played when it has played at all, currentTime and the endTime its       *)
(* timeupdate listener closes over, in tenths of a second, and whether its *)
(* blob URL has been revoked.                                              *)
(***************************************************************************)
EditSoundIds == 1..MaxEditSounds

RanEdit(op, id, path, i) == Ran(op, id, path, i, -1)

\* x || y for two numbers x, y of the dialog.
OrElse(x, y) == IF x = Undefined \/ x = 0 THEN y ELSE x

\* previewAudioRef.current.pause() of stopPreview, on the audios.
PausedAudios ==
  IF previewAudioRef = Null THEN audios
  ELSE [audios EXCEPT ![previewAudioRef].paused = TRUE]

\* The edit button of a card: setEditingSound(sound), and the effect on
\* editingSound?.id calls loadWaveform, which logs and awaits the read.
\* The dialog's overlay covers the cards while a sound is edited.
ClickEdit(soundId) ==
  /\ editingSound = NoSound
  /\ \E k \in 1..Len(sounds) : sounds[k] = soundId
  /\ editingSound' = [id |-> soundId, keybind |-> libKeybind[soundId]]
  /\ startTime' = Undefined
  /\ endTime' = Undefined
  /\ waveTasks' = Append(waveTasks, [sound |-> soundId, st |-> "sent", res |-> NoBuffer])
  /\ UNCHANGED <<waveformData, audioDuration, previewAudioRef,
                 isPreviewPlaying, audios, previewTasks, logs>>
  /\ UNCHANGED <<recordingKeybind, stopAllKeybind, libKeybind, registry, keyTasks>>
  /\ UNCHANGED <<dragVars, queueVars>>
  /\ last' = RanEdit("loadWaveform", soundId, "sent", -1)

\* The dialog's overlay and close button: setEditingSound(null); the
\* effect on editingSound?.id empties the waveform and zeroes the
\* duration, and the effect on editingSound calls stopPreview.
ClickClose ==
  /\ editingSound # NoSound
  /\ editingSound' = NoSound
  /\ startTime' = Undefined
  /\ endTime' = Undefined
  /\ waveformData' = <<>>
  /\ audioDuration' = 0
  /\ audios' = PausedAudios
  /\ previewAudioRef' = Null
  /\ isPreviewPlaying' = FALSE
  /\ UNCHANGED <<waveTasks, previewTasks, logs>>
  /\ UNCHANGED <<recordingKeybind, stopAllKeybind, libKeybind, registry, keyTasks>>
  /\ UNCHANGED <<dragVars, queueVars>>
  /\ last' = RanEdit("closeEdit", editingSound.id, "closed", -1)

\* readBinaryFile and decodeAudioData answer loadWaveform: the read
\* fails, the decode fails, or the audio is decoded.  Nothing of the
\* state changes between the two awaits.
ReadAndDecode(i, outcome, audioBuffer) ==
  /\ i \in 1..Len(waveTasks)
  /\ waveTasks[i].st = "sent"
  /\ waveTasks' = [waveTasks EXCEPT ![i].st = outcome,
                     ![i].res = IF outcome = "ok" THEN audioBuffer ELSE NoBuffer]
  /\ UNCHANGED <<waveformData, audioDuration, startTime, endTime,
                 previewAudioRef, isPreviewPlaying, audios, previewTasks, logs>>
  /\ UNCHANGED <<dragVars, keyVars, queueVars>>
  /\ last' = RanEdit("os", waveTasks[i].sound, outcome, i)

\* loadWaveform after its awaits: the duration and the normalized buckets
\* are set; the catch logs and empties the waveform.
ResumeLoadWaveform(i) ==
  /\ i \in 1..Len(waveTasks)
  /\ waveTasks[i].st # "sent"
  /\ waveTasks' = RemoveAt(waveTasks, i)
  /\ IF waveTasks[i].st = "ok"
     THEN /\ audioDuration' = waveTasks[i].res.duration
          /\ waveformData' = Normalized(Waveform(ChannelData(waveTasks[i].res)))
     ELSE /\ waveformData' = <<>>
          /\ UNCHANGED audioDuration
  /\ UNCHANGED <<startTime, endTime, previewAudioRef, isPreviewPlaying,
                 audios, previewTasks, logs>>
  /\ UNCHANGED <<dragVars, keyVars, queueVars>>
  /\ last' = RanEdit("resumeLoadWaveform", waveTasks[i].sound,
                     IF waveTasks[i].st = "ok" THEN "ok" ELSE "err", i)

\* The component with its library loaded and no dialog open.
InitEdit ==
  /\ sounds = [k \in 1..MaxEditSounds |-> k]
  /\ draggedSound = Null
  /\ dragOverSound = Null
  /\ backendSounds = sounds
  /\ tasks = <<>>
  /\ recordingKeybind = NoSession
  /\ stopAllKeybind = ""
  /\ editingSound = NoSound
  /\ libKeybind = [k \in 1..MaxEditSounds |-> ""]
  /\ registry = {}
  /\ keyTasks = <<>>
  /\ QueueIdle
  /\ EditIdle
  /\ last = RanEdit("init", Null, "init", -1)

(***************************************************************************)
(* The waveform specification: the dialog is opened and closed, and the    *)
(* files read decode to short and long, silent and sounding audio.         *)
(***************************************************************************)
WaveDurations == {3, 20}

NextWaveform ==
  \/ \E s \in EditSoundIds : Len(waveTasks) < MaxWaveTasks /\ ClickEdit(s)
  \/ ClickClose
  \/ \E i \in 1..MaxWaveTasks, b \in AudioBuffers(WaveDurations) :
       ReadAndDecode(i, "ok", b)
  \/ \E i \in 1..MaxWaveTasks, o \in {"readErr", "decodeErr"} :
       ReadAndDecode(i, o, NoBuffer)
  \/ \E i \in 1..MaxWaveTasks : ResumeLoadWaveform(i)

SpecWaveform == InitEdit /\ [][NextWaveform]_vars

(***************************************************************************)
(* The trim sliders of the edit dialog.  Times are in tenths of a second.  *)
(***************************************************************************)
SliderStep == 5
MinGap == 5
DefaultSliderMax == 10

\* The values a slider of min 0, max audioDuration || 1 and step 0.5 has.
SliderValues ==
  {v \in 0..OrElse(audioDuration, DefaultSliderMax) : v % SliderStep = 0}

\* onChange of the start slider.
ChangeStart(newStart) ==
  /\ editingSound # NoSound
  /\ newStart \in SliderValues
  /\ LET currentEnd == OrElse(endTime, audioDuration)
     IN startTime' = Min(newStart, currentEnd - MinGap)
  /\ UNCHANGED <<waveformData, audioDuration, waveTasks, endTime,
                 previewAudioRef, isPreviewPlaying, audios, previewTasks, logs>>
  /\ UNCHANGED <<dragVars, keyVars, queueVars>>
  /\ last' = RanEdit("changeStart", editingSound.id, "set", newStart)

\* onChange of the end slider.
ChangeEnd(newEnd) ==
  /\ editingSound # NoSound
  /\ newEnd \in SliderValues
  /\ LET currentStart == OrElse(startTime, 0)
     IN endTime' = Max(newEnd, currentStart + MinGap)
  /\ UNCHANGED <<waveformData, audioDuration, waveTasks, startTime,
                 previewAudioRef, isPreviewPlaying, audios, previewTasks, logs>>
  /\ UNCHANGED <<dragVars, keyVars, queueVars>>
  /\ last' = RanEdit("changeEnd", editingSound.id, "set", newEnd)

(***************************************************************************)
(* The trim specification: the dialog of a sound is opened, its file       *)
(* decodes to a short or a long clip, and the sliders are moved, before    *)
(* and after the duration has loaded.                                      *)
(***************************************************************************)
TrimDurations == {3, MaxTrimDuration}

TrimBuffers ==
  {[len |-> samples, pos |-> 1, amp |-> 1, base |-> 0, duration |-> d] :
     d \in TrimDurations}

NextTrim ==
  \/ \E s \in EditSoundIds : Len(waveTasks) < MaxWaveTasks /\ ClickEdit(s)
  \/ ClickClose
  \/ \E i \in 1..MaxWaveTasks, b \in TrimBuffers : ReadAndDecode(i, "ok", b)
  \/ \E i \in 1..MaxWaveTasks : ReadAndDecode(i, "readErr", NoBuffer)
  \/ \E i \in 1..MaxWaveTasks : ResumeLoadWaveform(i)
  \/ \E v \in 0..MaxTrimDuration : ChangeStart(v)
  \/ \E v \in 0..MaxTrimDuration : ChangeEnd(v)

SpecTrim == InitEdit /\ [][NextTrim]_vars

(***************************************************************************)
(* The trim preview.  previewTrim closes over editingSound and             *)
(* audioDuration as they are at the click; audio.play() is taken to settle *)
(* at once, resolved or rejected.                                          *)
(***************************************************************************)
\* The playback positions at which timeupdate events are taken to fire.
PositionStep == 5

Playing(a) == ~audios[a].paused /\ ~audios[a].ended

\* The Preview Trim button, rendered while isPreviewPlaying is false:
\* previewTrim up to its await.
previewTrim ==
  /\ editingSound # NoSound
  /\ ~isPreviewPlaying
  /\ IF audioDuration = 0
     THEN /\ UNCHANGED <<previewAudioRef, isPreviewPlaying, audios, previewTasks>>
          /\ last' = RanEdit("previewTrim", editingSound.id, "return", -1)
     ELSE /\ audios' = PausedAudios
          /\ previewAudioRef' = Null
          /\ isPreviewPlaying' = FALSE
          /\ previewTasks' = Append(previewTasks,
               [sound |-> editingSound.id, st |-> "sent",
                startTime |-> OrElse(startTime, 0),
                endTime |-> OrElse(endTime, audioDuration),
                duration |-> audioDuration])
          /\ last' = RanEdit("previewTrim", editingSound.id, "sent", -1)
  /\ UNCHANGED <<waveformData, audioDuration, waveTasks, startTime, endTime, logs>>
  /\ UNCHANGED <<dragVars, keyVars, queueVars>>

\* The Stop Preview button, rendered while isPreviewPlaying is true.
stopPreview ==
  /\ editingSound # NoSound
  /\ isPreviewPlaying
  /\ audios' = PausedAudios
  /\ previewAudioRef' = Null
  /\ isPreviewPlaying' = FALSE
  /\ UNCHANGED <<waveformData, audioDuration, waveTasks, startTime, endTime,
                 previewTasks, logs>>
  /\ UNCHANGED <<dragVars, keyVars, queueVars>>
  /\ last' = RanEdit("stopPreview", editingSound.id, "stopped", -1)

\* readBinaryFile answers previewTrim.
PreviewRead(i, ok) ==
  /\ i \in 1..Len(previewTasks)
  /\ previewTasks[i].st = "sent"
  /\ previewTasks' = [previewTasks EXCEPT ![i].st = IF ok THEN "ok" ELSE "err"]
  /\ UNCHANGED <<waveformData, audioDuration, waveTasks, startTime, endTime,
                 previewAudioRef, isPreviewPlaying, audios, logs>>
  /\ UNCHANGED <<dragVars, keyVars, queueVars>>
  /\ last' = RanEdit("os", previewTasks[i].sound, IF ok THEN "ok" ELSE "err", i)

\* previewTrim after its await: the blob URL and the Audio are created,
\* the ref is set, the listeners are added and play() is called; played
\* says whether play() resolved.  The catch logs and clears the flag.
ResumePreviewTrim(i, played) ==
  /\ i \in 1..Len(previewTasks)
  /\ previewTasks[i].st # "sent"
  /\ previewTasks' = RemoveAt(previewTasks, i)
  /\ IF previewTasks[i].st = "ok"
     THEN /\ audios' = Append(audios,
               [paused |-> ~played, played |-> played, ended |-> FALSE,
                revoked |-> FALSE,
                currentTime |-> Min(Max(previewTasks[i].startTime, 0),
                                    previewTasks[i].duration),
                endTime |-> previewTasks[i].endTime,
                duration |-> previewTasks[i].duration])
          /\ previewAudioRef' = Len(audios) + 1
          /\ isPreviewPlaying' = played
          /\ last' = RanEdit("resumePreviewTrim", previewTasks[i].sound,
                             IF played THEN "playing" ELSE "failed", Len(audios) + 1)
     ELSE /\ isPreviewPlaying' = FALSE
          /\ UNCHANGED <<audios, previewAudioRef>>
          /\ last' = RanEdit("resumePreviewTrim", previewTasks[i].sound, "failed", -1)
  /\ UNCHANGED <<waveformData, audioDuration, waveTasks, startTime, endTime, logs>>
  /\ UNCHANGED <<dragVars, keyVars, queueVars>>

\* A timeupdate event of an audio that plays, at position t before the
\* end of the media: the listener pauses it at or after endTime.
TimeUpdate(a, t) ==
  /\ a \in 1..Len(audios)
  /\ Playing(a)
  /\ audios[a].currentTime < t
  /\ t < audios[a].duration
  /\ audios' = [audios EXCEPT ![a].currentTime = t,
                              ![a].paused = (t >= audios[a].endTime)]
  /\ isPreviewPlaying' = IF t >= audios[a].endTime THEN FALSE ELSE isPreviewPlaying
  /\ UNCHANGED <<waveformData, audioDuration, waveTasks, startTime, endTime,
                 previewAudioRef, previewTasks, logs>>
  /\ UNCHANGED <<dragVars, keyVars, queueVars>>
  /\ last' = RanEdit("timeupdate", Null,
                     IF t >= audios[a].endTime THEN "paused" ELSE "playing", a)

\* An audio that plays reaches the end of the media: its last timeupdate
\* and its ended event.
Ended(a) ==
  /\ a \in 1..Len(audios)
  /\ Playing(a)
  /\ audios' = [audios EXCEPT ![a].currentTime = audios[a].duration,
                              ![a].ended = TRUE,
                              ![a].revoked = TRUE]
  /\ isPreviewPlaying' = FALSE
  /\ UNCHANGED <<waveformData, audioDuration, waveTasks, startTime, endTime,
                 previewAudioRef, previewTasks, logs>>
  /\ UNCHANGED <<dragVars, keyVars, queueVars>>
  /\ last' = RanEdit("ended", Null, "ended", a)

(***************************************************************************)
(* The preview specification: the dialog of a sound whose clip has a       *)
(* duration, the trim sliders, the preview buttons as the interface        *)
(* offers them, and the audio elements' events.                            *)
(***************************************************************************)
PreviewBuffers ==
  {[len |-> samples, pos |-> 1, amp |-> 1, base |-> 0, duration |-> MaxPreviewDuration]}

PreviewCalls(maxTasks) ==
  \/ Len(waveTasks) < MaxWaveTasks /\ ClickEdit(1)
  \/ ClickClose
  \/ \E i \in 1..MaxWaveTasks, b \in PreviewBuffers : ReadAndDecode(i, "ok", b)
  \/ \E i \in 1..MaxWaveTasks : ResumeLoadWaveform(i)
  \/ /\ Len(previewTasks) < maxTasks
     /\ Len(audios) + Len(previewTasks) < MaxAudios
     /\ previewTrim
  \/ stopPreview
  \/ \E i \in 1..maxTasks, ok \in BOOLEAN : PreviewRead(i, ok)
  \/ \E i \in 1..maxTasks, played \in BOOLEAN : ResumePreviewTrim(i, played)
  \/ \E a \in 1..MaxAudios, t \in 0..MaxPreviewDuration :
       t % PositionStep = 0 /\ TimeUpdate(a, t)
  \/ \E a \in 1..MaxAudios : Ended(a)

NextPreview ==
  \/ PreviewCalls(MaxPreviewTasks)
  \/ \E v \in 0..MaxPreviewDuration : ChangeStart(v)
  \/ \E v \in 0..MaxPreviewDuration : ChangeEnd(v)

SpecPreview == InitEdit /\ [][NextPreview]_vars

\* The same, where a file read is answered, a suspended previewTrim
\* resumes and an audio that plays goes on to its next event.
FairPreview ==
  /\ WF_vars(\E i \in 1..MaxPreviewTasks, ok \in BOOLEAN : PreviewRead(i, ok))
  /\ WF_vars(\E i \in 1..MaxPreviewTasks, played \in BOOLEAN : ResumePreviewTrim(i, played))
  /\ \A a \in 1..MaxAudios :
       WF_vars(Ended(a) \/ \E t \in 0..MaxPreviewDuration :
                            t % PositionStep = 0 /\ TimeUpdate(a, t))

SpecPreviewFair == SpecPreview /\ FairPreview

(***************************************************************************)
(* The preview specification with starts that overlap: Preview Trim can    *)
(* be pressed again while an earlier press awaits its file read.  The trim *)
(* is left unset.                                                          *)
(***************************************************************************)
NextPreviewRace == PreviewCalls(MaxRacePreviewTasks)

SpecPreviewRace == InitEdit /\ [][NextPreviewRace]_vars

(***************************************************************************)
(* The diagnostic log.  An entry is its timestamp, and the clock advances  *)
(* by one from call to call, so an entry is the number of the call that    *)
(* wrote it.                                                               *)
(***************************************************************************)
LogKeep == 100

\* list.slice(start): from start, which counts from the end when negative.
Slice(list, start) ==
  SubSeq(list, SpliceStart(Len(list), start) + 1, Len(list))

\* new Date() of addLog.
Now == IF logs = <<>> THEN 1 ELSE logs[Len(logs)] + 1

\* addLog(message, type): setLogs(prev => [...prev.slice(-100), entry]).
addLog ==
  /\ logs' = Append(Slice(logs, -LogKeep), Now)
  /\ UNCHANGED <<waveformData, audioDuration, waveTasks, startTime, endTime,
                 previewAudioRef, isPreviewPlaying, audios, previewTasks>>
  /\ UNCHANGED <<dragVars, keyVars, queueVars>>
  /\ last' = RanEdit("addLog", Null, "logged", Now)

(***************************************************************************)
(* The log specification: addLog is called time after time.                *)
(***************************************************************************)
NextLog == Now <= MaxLogCalls /\ addLog

SpecLog == InitEdit /\ [][NextLog]_vars

(***************************************************************************)
(* Properties.                                                             *)
(***************************************************************************)
Without(list, x) == SelectSeq(list, LAMBDA e : e # x)
Members(list) == {list[k] : k \in 1..Len(list)}
Contains(list, x) == \E k \in 1..Len(list) : list[k] = x

\* A release of the dragged card over another card of the list.
IsDropStep ==
  /\ last'.op = "handleMouseUp"
  /\ draggedSound # Null
  /\ last'.id # draggedSound
  /\ Contains(sounds, draggedSound)
  /\ Contains(sounds, last'.id)

\* C1: releasing the card at position s over the card at position t gives a
\* list with the dragged card at index t and every other card in its old
\* relative order, no card lost or duplicated (a move, not a swap).
C1_SingleElementMove ==
  [][IsDropStep =>
       LET t == FindIndex(sounds, last'.id)
       IN  /\ Len(sounds') = Len(sounds)
           /\ sounds'[t + 1] = draggedSound
           /\ Without(sounds', draggedSound) = Without(sounds, draggedSound)
           /\ Members(sounds') = Members(sounds)
           /\ Cardinality(Members(sounds')) = Len(sounds')]_vars

\* C1, reached: the first of three cards was dropped on the third.
C1_Witness ==
  /\ last.path = "drop"
  /\ last.from = 0
  /\ last.to = 2
  /\ Len(sounds) = 3
  /\ sounds[3] = draggedSound

\* C2: a release over the card the drag started on changes neither the
\* list nor the backend, issues no call, and ends the drag session.
C2_OriginReleaseNoOp ==
  [][(last'.op = "handleMouseUp" /\ draggedSound # Null /\ last'.id = draggedSound) =>
       /\ sounds' = sounds
       /\ tasks' = tasks
       /\ backendSounds' = backendSounds
       /\ draggedSound' = Null
       /\ dragOverSound' = Null]_vars

\* C2, reached: a drag was released over its origin.
C2_Witness ==
  /\ last.op = "handleMouseUp"
  /\ last.path = "origin"
  /\ Contains(sounds, last.id)
  /\ draggedSound = Null

\* C3: on a drop over another card the local list has its new order in the
\* step that issues update_sound_order, while the call is unanswered and
\* the backend unchanged, and the payload is the new local list.
C3_OptimisticThenSubmit ==
  [][IsDropStep =>
       /\ Len(tasks') = Len(tasks) + 1
       /\ SubSeq(tasks', 1, Len(tasks)) = tasks
       /\ tasks'[Len(tasks')].op = "update_sound_order"
       /\ tasks'[Len(tasks')].st = "sent"
       /\ tasks'[Len(tasks')].arg = sounds'
       /\ sounds' # sounds
       /\ sounds'[FindIndex(sounds, last'.id) + 1] = draggedSound
       /\ backendSounds' = backendSounds]_vars

\* C3, reached: the new order is local while its submission is unanswered
\* and the backend still holds the old one.
C3_Witness ==
  /\ last.path = "drop"
  /\ Len(tasks) > 0
  /\ tasks[Len(tasks)].op = "update_sound_order"
  /\ tasks[Len(tasks)].st = "sent"
  /\ tasks[Len(tasks)].arg = sounds
  /\ backendSounds # sounds

Reloads(ts) == Cardinality({k \in 1..Len(ts) : ts[k].op = "get_sounds"})

\* C4: a failed submission issues a get_sounds reload whose answer, when it
\* succeeds, becomes the local list; a successful submission issues no
\* reload and keeps the optimistic order.
C4_RollbackByRefetch ==
  [][/\ (last'.op = "resumeMouseUp" /\ last'.path = "err") =>
          /\ Reloads(tasks') = Reloads(tasks) + 1
          /\ tasks'[Len(tasks')].op = "get_sounds"
          /\ tasks'[Len(tasks')].st = "sent"
          /\ sounds' = sounds
     /\ (last'.op = "resumeMouseUp" /\ last'.path = "ok") =>
          /\ Reloads(tasks') = Reloads(tasks)
          /\ Len(tasks') = Len(tasks) - 1
          /\ sounds' = sounds
     /\ (last'.op = "resumeLoadSounds" /\ last'.path = "ok") =>
          \E i \in 1..Len(tasks) :
            /\ tasks[i].op = "get_sounds"
            /\ tasks[i].st = "ok"
            /\ tasks' = RemoveAt(tasks, i)
            /\ sounds' = tasks[i].res]_vars

\* C4, reached: a submission failed, the reload is in flight, and the
\* local order is still the optimistic one the backend never took.
C4_Witness ==
  /\ last.op = "resumeMouseUp"
  /\ last.path = "err"
  /\ Len(tasks) > 0
  /\ tasks[Len(tasks)].op = "get_sounds"
  /\ sounds # backendSounds
  /\ Len(sounds) = Len(backendSounds)

\* C5: a mouse enter or leave changes at most the drag-over marker, and
\* never sets it to the dragged card's own id.
C5_HoverOnlyMarks ==
  [][(last'.op \in {"handleMouseEnter", "handleMouseLeave"}) =>
       /\ sounds' = sounds
       /\ draggedSound' = draggedSound
       /\ backendSounds' = backendSounds
       /\ tasks' = tasks
       /\ (dragOverSound' # dragOverSound =>
             dragOverSound' = Null \/ dragOverSound' # draggedSound)]_vars

\* C5, reached: during a drag, a mouse enter marked another card.
C5_Witness ==
  /\ last.op = "handleMouseEnter"
  /\ draggedSound # Null
  /\ dragOverSound = last.id
  /\ dragOverSound # draggedSound

\* C6: after any mouse release the drag session ends: draggedSound and
\* dragOverSound are eventually both null.
C6_NoStuckDrag ==
  (last.op \in {"handleMouseUp", "handleGlobalMouseUp"})
    ~> (draggedSound = Null /\ dragOverSound = Null)

\* C6, reached: a card was dropped and the session is still marked as
\* dragging while the submission is in flight.
C6_Witness ==
  /\ last.op = "handleMouseUp"
  /\ last.path = "drop"
  /\ draggedSound # Null
  /\ Len(tasks) > 0

\* The chord the text describes for a key press: the modifiers held, in
\* the order Ctrl, Alt, Shift, then the key's name.
ExpectedChord(e) ==
  (IF e.ctrlKey THEN "Ctrl+" ELSE "")
    \o (IF e.altKey THEN "Alt+" ELSE "")
    \o (IF e.shiftKey THEN "Shift+" ELSE "")
    \o (IF e.key = " " THEN "Space" ELSE ToUpperCase(e.key))

\* C7: a press of a non-modifier key in an open session captures the chord
\* made of the held modifiers in the order Ctrl, Alt, Shift and the key's
\* name in upper case, Space for the space key, joined with "+".
C7_CanonicalChord ==
  [][(/\ last'.op = "handleGlobalKeyDown"
      /\ last'.ev.key \notin ModifierKeys
      /\ recordingKeybind = "stopAll"
      /\ stopAllKeybind = "") =>
       /\ Len(keyTasks') = Len(keyTasks) + 1
       /\ keyTasks'[Len(keyTasks')].new = ExpectedChord(last'.ev)
       /\ keyTasks'[Len(keyTasks')].arg = ExpectedChord(last'.ev)
       /\ stopAllKeybind' = ExpectedChord(last'.ev)
       /\ (last'.ev = KeyEvent("a", TRUE, FALSE, TRUE) => stopAllKeybind' = "Ctrl+Shift+A")
       /\ (last'.ev = KeyEvent(" ", FALSE, TRUE, FALSE) => stopAllKeybind' = "Alt+Space")
       /\ (last'.ev = KeyEvent("F5", TRUE, TRUE, TRUE) => stopAllKeybind' = "Ctrl+Alt+Shift+F5")]_vars

\* C7, reached: Ctrl+Shift+"a" was captured as Ctrl+Shift+A.
C7_Witness ==
  /\ last.op = "handleGlobalKeyDown"
  /\ last.ev = KeyEvent("a", TRUE, FALSE, TRUE)
  /\ stopAllKeybind = "Ctrl+Shift+A"
  /\ Len(keyTasks) = 1
  /\ keyTasks[1].arg = "Ctrl+Shift+A"

\* C8: a press of Control, Alt, Shift or Meta alone in an open session, and
\* any key press with no session open, changes no keybind state, issues no
\* backend call and leaves the session as it was.
C8_ModifierAloneIgnored ==
  [][(/\ last'.op = "handleGlobalKeyDown"
      /\ (recordingKeybind = NoSession \/ last'.ev.key \in ModifierKeys)) =>
       /\ recordingKeybind' = recordingKeybind
       /\ stopAllKeybind' = stopAllKeybind
       /\ editingSound' = editingSound
       /\ libKeybind' = libKeybind
       /\ registry' = registry
       /\ keyTasks' = keyTasks
       /\ tasks' = tasks]_vars

\* C8, reached: Shift alone was pressed in a sound session, which is open.
C8_Witness ==
  /\ last.op = "handleGlobalKeyDown"
  /\ last.ev.key = "Shift"
  /\ recordingKeybind = "sound"
  /\ editingSound # NoSound
  /\ keyTasks = <<>>

UnregisterOp(target) ==
  IF target = "stopAll" THEN "unregister_stop_all_keybind" ELSE "unregister_sound_keybind"
RegisterOp(target) ==
  IF target = "stopAll" THEN "register_stop_all_keybind" ELSE "register_sound_keybind"

\* C9: a handler that replaces a chord has issued the unregister call of
\* the old chord and seen it return before it issues the register call of
\* the new one, and it issues set_stop_all_keybind only once the register
\* call has returned.
C9_UnregisterBeforeRegister ==
  \A i \in 1..Len(keyTasks) :
    LET t == keyTasks[i]
    IN  \A k \in 1..Len(t.tr) :
          /\ (t.tr[k] = <<RegisterOp(t.target), t.new, "issued">> /\ t.old # "") =>
               \E j \in 1..(k - 1) :
                 /\ t.tr[j] = <<UnregisterOp(t.target), t.old, "returned">>
                 /\ \E h \in 1..(j - 1) :
                      t.tr[h] = <<UnregisterOp(t.target), t.old, "issued">>
          /\ (t.tr[k][1] = "set_stop_all_keybind" /\ t.tr[k][3] = "issued") =>
               \E j \in 1..(k - 1) :
                 t.tr[j] = <<"register_stop_all_keybind", t.new, "returned">>

\* C9, reached: a stop-all handler that replaced a chord awaits the
\* persist call, after its unregister and register calls.
C9_Witness ==
  \E i \in 1..Len(keyTasks) :
    /\ keyTasks[i].target = "stopAll"
    /\ keyTasks[i].old # ""
    /\ keyTasks[i].old # keyTasks[i].new
    /\ keyTasks[i].op = "set_stop_all_keybind"
    /\ Len(keyTasks[i].tr) = 5

ChordsOf(target) == {b[1] : b \in {c \in registry : c[2] = target}}

\* C10: at no time does the backend hold two chords registered for the
\* same target, the stop-all action or a sound.
C10_OneChordPerTarget ==
  \A target \in 0..MaxKeySounds : Cardinality(ChordsOf(target)) <= 1

RegistryOps ==
  {"unregister_stop_all_keybind", "register_stop_all_keybind",
   "unregister_sound_keybind", "register_sound_keybind"}

\* C11: one recording session at most is open, and once a session for the
\* other target has replaced a session, a handler of the replaced session
\* issues no unregister or register call any more and does not close the
\* session that replaced it.
C11_ReplacedSessionLeftAlone ==
  [][/\ recordingKeybind' \in {NoSession, "sound", "stopAll"}
     /\ \A i \in 1..Len(keyTasks) :
          (recordingKeybind # NoSession /\ keyTasks[i].target # recordingKeybind) =>
            /\ (Len(keyTasks') = Len(keyTasks) /\ keyTasks'[i] # keyTasks[i]) =>
                 keyTasks'[i].op \notin RegistryOps
            /\ keyTasks' = RemoveAt(keyTasks, i) =>
                 recordingKeybind' = recordingKeybind]_vars

RegisterOps == {"register_stop_all_keybind", "register_sound_keybind"}

\* The binding the call a handler awaits is about.
BindingOf(t) == <<t.arg, IF t.target = "stopAll" THEN StopAllTarget ELSE t.es.id>>

\* The step resumes handler i, which goes on to its next call.
Continues(i) == Len(keyTasks') = Len(keyTasks) /\ keyTasks'[i] # keyTasks[i]

\* The step resumes handler i, which ends.
Ends(i) == keyTasks' = RemoveAt(keyTasks, i)

C13_StopAllSessionCloses ==
  [][\A i \in 1..Len(keyTasks) :
       (keyTasks[i].target = "stopAll" /\ recordingKeybind = "stopAll" /\ Ends(i)) =>
         recordingKeybind' = NoSession]_vars

UnregisterOps == {"unregister_stop_all_keybind", "unregister_sound_keybind"}

\* The chord the component holds for the target of handler t.
LocalChord(t, stopAll, editing) ==
  IF t.target = "stopAll" THEN stopAll ELSE editing.keybind

\* C14: capture completes locally whatever the backend answers: the key
\* press that replaces no chord sets the local chord at once, a returned
\* unregister call, failed or not, is followed by the local chord being set
\* to the new chord and by the register call of the new chord, and the
\* return of the register call, failed or not, leaves the local chord.
C14_CaptureCompletesLocally ==
  [][/\ (last'.op = "handleGlobalKeyDown" /\ Len(keyTasks') = Len(keyTasks) + 1) =>
          LET t == keyTasks'[Len(keyTasks')]
          IN  t.old = "" => LocalChord(t, stopAllKeybind', editingSound') = t.new
     /\ (keyTasks' # keyTasks /\ last'.op # "handleGlobalKeyDown") =>
          \A i \in 1..Len(keyTasks) :
            LET t == keyTasks[i]
            IN  (Ends(i) \/ Continues(i)) =>
                  /\ t.op \in UnregisterOps =>
                       /\ Continues(i)
                       /\ keyTasks'[i].op = RegisterOp(t.target)
                       /\ keyTasks'[i].arg = t.new
                       /\ LocalChord(t, stopAllKeybind', editingSound') = t.new
                       /\ t.target = "sound" => editingSound'.id = t.es.id
                  /\ t.op \in RegisterOps =>
                       /\ stopAllKeybind' = stopAllKeybind
                       /\ editingSound' = editingSound]_vars

\* C14, reached: the unregister call of the old chord failed (the old
\* chord is still registered), and the handler awaits the register call of
\* the new chord, which is the local chord.
C14_Witness ==
  \E i \in 1..Len(keyTasks) :
    /\ keyTasks[i].op \in RegisterOps
    /\ keyTasks[i].old # ""
    /\ keyTasks[i].old # keyTasks[i].new
    /\ <<keyTasks[i].old, BindingOf(keyTasks[i])[2]>> \in registry
    /\ LocalChord(keyTasks[i], stopAllKeybind, editingSound) = keyTasks[i].new

\* C15: a returned add_to_queue call that succeeded sets the local queue
\* to the sequence the backend answered, and one that failed leaves the
\* local queue; neither touches the playing flag.
C15_QueueIsTheAnswer ==
  [][\A i \in 1..Len(queueTasks) :
       (/\ queueTasks[i].fn = "addToQueue"
        /\ last'.op = "resumeAddToQueue"
        /\ last'.path = queueTasks[i].st
        /\ queueTasks' = RemoveAt(queueTasks, i)) =>
         /\ queueTasks[i].st = "ok" => soundQueue' = queueTasks[i].res
         /\ queueTasks[i].st = "err" => soundQueue' = soundQueue
         /\ isQueuePlaying' = isQueuePlaying]_vars

\* C15, reached: a successful add_to_queue has returned and the local
\* queue is the backend's queue, both entries of it.
C15_Witness ==
  /\ last.op = "resumeAddToQueue"
  /\ last.path = "ok"
  /\ queueTasks = <<>>
  /\ Len(soundQueue) = MaxQueueLen
  /\ soundQueue = backendQueue

\* C16: playQueue on an empty local queue issues no call, sets no
\* interval and leaves the playing flag false.
C16_EmptyQueueRejected ==
  [][(last'.op = "playQueue" /\ Len(soundQueue) = 0) =>
       /\ queueTasks' = queueTasks
       /\ timers' = timers
       /\ isQueuePlaying' = FALSE
       /\ soundQueue' = soundQueue
       /\ backendQueue' = backendQueue
       /\ backendPlaying' = backendPlaying]_vars

\* C16, reached: playQueue ran on an empty queue.
C16_Witness ==
  /\ last = RanQueue("playQueue", Null, "empty")
  /\ soundQueue = <<>>
  /\ queueTasks = <<>>
  /\ ~isQueuePlaying

\* C17: the poll that reports the queue finished clears the local queue
\* and the playing flag and cancels its interval, and it is a poll of an
\* interval that is still set: the completion of a session runs once.
C17_CompletionRunsOnce ==
  [][(last'.op = "resumeCheckQueue" /\ last'.path = "finished") =>
       /\ last'.id \in timers
       /\ last'.id \notin timers'
       /\ soundQueue' = <<>>
       /\ isQueuePlaying' = FALSE]_vars

\* C18: once a stop-all whose call succeeded has completed, the local
\* queue is empty, the playing flag is false and no interval is set.
C18_StopAllCancelsPoll ==
  [][(last'.op = "resumeStopAllSounds" /\ last'.path = "ok") =>
       /\ soundQueue' = <<>>
       /\ isQueuePlaying' = FALSE
       /\ timers' = {}]_vars

\* C19: one interval at most is set at any time, and none is set while
\* no queue session plays.
C19_OneTimerWhilePlaying ==
  /\ Cardinality(timers) <= 1
  /\ timers # {} => isQueuePlaying

\* C20: a poll whose call failed leaves the local queue, the playing flag
\* and the intervals that are set.
C20_FailedPollChangesNothing ==
  [][(last'.op = "resumeCheckQueue" /\ last'.path = "err") =>
       /\ soundQueue' = soundQueue
       /\ isQueuePlaying' = isQueuePlaying
       /\ timers' = timers]_vars

\* C20, reached: a poll of a playing session failed, and its interval is
\* still set.
C20_Witness ==
  /\ last.op = "resumeCheckQueue"
  /\ last.path = "err"
  /\ last.id \in timers
  /\ isQueuePlaying
  /\ soundQueue # <<>>

\* The state both completion paths are said to end in.
QueueSettled ==
  /\ soundQueue = <<>>
  /\ isQueuePlaying = FALSE
  /\ timers = {}

\* C21: a completed stop-all and a poll that reports the queue finished
\* both end with the local queue empty, the playing flag false and no
\* interval set, whichever of them ran before.
C21_CompletionPathsSettle ==
  [][(\/ last'.op = "resumeStopAllSounds" /\ last'.path = "ok"
      \/ last'.op = "resumeCheckQueue" /\ last'.path = "finished") =>
       QueueSettled']_vars

\* The sum of the absolute values of the samples at the indices of S.
RECURSIVE SumAbs(_, _)
SumAbs(channelData, S) ==
  IF S = {} THEN 0
  ELSE LET j == CHOOSE j \in S : TRUE
       IN Abs(channelData[j]) + SumAbs(channelData, S \ {j})

\* The step is loadWaveform completing, after its awaits, the decode that
\* task t carries.
Decoded(t) ==
  /\ last'.op = "resumeLoadWaveform"
  /\ last'.path = "ok"
  /\ last'.from = t

Zero == [n |-> 0, d |-> 1]
One == [n |-> 1, d |-> 1]

\* C22: a decoded audio of any sample count gives 200 buckets, and bucket
\* i is a number: the mean of the absolute values of the block of
\* floor(length / 200) samples that starts at i * floor(length / 200).
C22_BucketsAreBlockMeans ==
  [][\A t \in 1..Len(waveTasks) : Decoded(t) =>
       LET channelData == ChannelData(waveTasks[t].res)
           size == Len(channelData) \div samples
           waveform == Waveform(channelData)
       IN /\ Len(waveformData') = samples
          /\ Len(waveform) = samples
          /\ \A i \in 0..(samples - 1) :
               /\ IsFinite(waveform[i + 1])
               /\ waveform[i + 1].n * size
                    = waveform[i + 1].d
                        * SumAbs(channelData, {i * size + j + 1 : j \in 0..(size - 1)})]_vars

\* C23: a decoded audio whose samples are all zero gives 200 buckets that
\* are all 0.
C23_SilenceGivesZeros ==
  [][\A t \in 1..Len(waveTasks) : Decoded(t) =>
       LET channelData == ChannelData(waveTasks[t].res)
       IN (\A j \in 1..Len(channelData) : channelData[j] = 0) =>
            waveformData' = [i \in 1..samples |-> Zero]]_vars

\* C24: a decoded audio with a sample that is not zero gives buckets that
\* all lie in [0, 1], one of them being 1.
C24_SoundGivesUnitRange ==
  [][\A t \in 1..Len(waveTasks) : Decoded(t) =>
       LET channelData == ChannelData(waveTasks[t].res)
       IN (\E j \in 1..Len(channelData) : channelData[j] # 0) =>
            /\ \A i \in 1..Len(waveformData') :
                 /\ IsFinite(waveformData'[i])
                 /\ Leq(Zero, waveformData'[i])
                 /\ Leq(waveformData'[i], One)
            /\ \E i \in 1..Len(waveformData') : waveformData'[i] = One]_vars

\* C25: when loadWaveform fails, the waveform is empty and the duration
\* is 0 afterwards, and the editing session is as it was.
C25_FailureGivesEmptyWaveform ==
  [][(last'.op = "resumeLoadWaveform" /\ last'.path = "err") =>
       /\ waveformData' = <<>>
       /\ audioDuration' = 0
       /\ editingSound' = editingSound]_vars

\* C26: a decode that completes for a sound that is not the one edited
\* writes nothing, and while no sound is edited the waveform is empty and
\* the duration is 0.
C26_LateDecodeDiscarded ==
  [][/\ (last'.op = "resumeLoadWaveform" /\ last'.id # editingSound.id) =>
          /\ waveformData' = waveformData
          /\ audioDuration' = audioDuration
     /\ editingSound' = NoSound =>
          /\ waveformData' = <<>>
          /\ audioDuration' = 0]_vars

\* C27: the trim bounds that are set keep the minimum gap and lie within
\* the clip: startTime <= endTime - 0.5, 0 <= startTime, and endTime is
\* at most the duration once the duration has loaded.
C27_TrimBoundsInRange ==
  /\ (startTime # Undefined /\ endTime # Undefined) => startTime <= endTime - MinGap
  /\ startTime # Undefined => 0 <= startTime
  /\ (endTime # Undefined /\ audioDuration # 0) => endTime <= audioDuration

\* C28: at most one preview audio plays at any time.
C28_OnePreviewPlays ==
  Cardinality({a \in 1..Len(audios) : Playing(a)}) <= 1

\* C29: a preview that has reached its endTime is paused with the playing
\* flag cleared and the handle kept, and the blob URL of every preview
\* that has played and halted, paused or ended, is revoked in the end.
C29_HaltsAndReleasesBlob ==
  /\ [][(last'.op = "timeupdate" /\ last'.path = "paused") =>
          /\ audios'[last'.from].paused
          /\ ~isPreviewPlaying'
          /\ previewAudioRef' = previewAudioRef]_vars
  /\ \A a \in 1..MaxAudios :
       (a <= Len(audios) /\ audios[a].played
          /\ (audios[a].paused \/ audios[a].ended))
         ~> (a <= Len(audios) /\ audios[a].revoked)

\* C30: the log never holds more than 100 entries, the entries it holds
\* are the most recent ones in the order they were written, and the
\* newest is last.
C30_LogCapped ==
  /\ Len(logs) <= 100
  /\ \A k \in 1..(Len(logs) - 1) : logs[k + 1] = logs[k] + 1
  /\ last.op = "addLog" => logs[Len(logs)] = last.from

\* C35: a poll empties the local queue only while a queue session plays:
\* the queue built after a stop-all is not cleared by a poll of the
\* session that the stop-all ended.
C35_OldPollLeavesNewQueue ==
  [][(last'.op = "resumeCheckQueue" /\ last'.path = "finished"
        /\ soundQueue # <<>>) => isQueuePlaying]_vars

\* C36: a recording session for a sound is open only while a sound is
\* edited.
C36_SoundSessionNeedsDialog ==
  recordingKeybind = "sound" => editingSound # NoSound

\* C37: while no dialog is open and no call is in flight, the chords the
\* backend has registered for a sound are the keybind the library stores
\* for it, and none when it stores none.
C37_RegistryMatchesLibrary ==
  (editingSound = NoSound /\ keyTasks = <<>>) =>
     \A s \in 1..Len(sounds) :
        ChordsOf(s) = IF libKeybind[s] = "" THEN {} ELSE {libKeybind[s]}

\* C38: while no sound is edited, no preview audio plays and the
\* preview-playing flag is false.
C38_NoPreviewOutsideDialog ==
  editingSound = NoSound =>
     /\ \A a \in 1..Len(audios) : ~Playing(a)
     /\ ~isPreviewPlaying

\* C33: a drag session started while an earlier reorder submission is in
\* flight is not disturbed when that submission completes: the completion
\* that follows the press leaves the pressed card the dragged one.
C33_CompletionKeepsNewDrag ==
  [][(last.op = "handleMouseDown" /\ last.path = "start"
        /\ last'.op = "resumeMouseUp") => draggedSound' = draggedSound]_vars

\* C34: once every update_sound_order submission and every get_sounds
\* reload has completed, the order of a loaded list is the backend's order.
C34_SettledOrderIsBackendOrder ==
  (tasks = <<>> /\ sounds # <<>>) => sounds = backendSounds

\* C32: a failed stop_all leaves playingSound, the queue and the playing
\* flag as they were; a failed clear_queue leaves the queue and the flag as
\* they were; a failed play_queue leaves the queue as it was, sets the flag
\* to false and sets no interval.
C32_FailedCallsChangeNothing ==
  [][/\ (last'.op = "resumeStopAllSounds" /\ last'.path = "err")
          => UNCHANGED <<playingSound, soundQueue, isQueuePlaying>>
     /\ (last'.op = "resumeClearQueue" /\ last'.path = "err")
          => UNCHANGED <<soundQueue, isQueuePlaying>>
     /\ (last'.op = "resumePlayQueue" /\ last'.path = "err")
          => /\ UNCHANGED <<soundQueue, timers>>
             /\ ~isQueuePlaying']_vars

\* A stop-all has failed while a card was marked as playing and the queue
\* played.
C32_FailedStopAllWhilePlaying ==
  /\ last.op = "resumeStopAllSounds"
  /\ last.path = "err"
  /\ playingSound # Null
  /\ soundQueue # <<>>
  /\ isQueuePlaying

\* The step issues the backend call op.
Issued(op) ==
  Cardinality({k \in 1..Len(tasks') : tasks'[k].op = op})
    > Cardinality({k \in 1..Len(tasks) : tasks[k].op = op})

\* C31: remove_sound is issued by removeSound and by nothing else; when it
\* succeeded the edit session is cleared and a reload is issued on a
\* backend that no longer holds the sound, and a reload that succeeds
\* leaves the local list equal to the backend's, without the removed
\* sound; when it failed no reload is issued and the local list and the
\* edit session are as they were.
C31_RemoveThenReload ==
  /\ [][/\ Issued("remove_sound") <=> last'.op = "removeSound"
        /\ (last'.op = "resumeRemoveSound" /\ last'.path = "ok")
             => /\ editingSound' = NoSound
                /\ Issued("get_sounds")
                /\ ~Contains(backendSounds', last'.id)
        /\ (last'.op = "resumeRemoveSound" /\ last'.path = "err")
             => /\ ~Issued("get_sounds")
                /\ UNCHANGED <<sounds, editingSound>>]_vars
  /\ []((last.op = "resumeLoadSounds" /\ last.path = "ok") => sounds = backendSounds)

\* The reload after a removal has succeeded: a sound of the initial
\* library is in neither list.
C31_RemovedAndReloaded ==
  /\ last.op = "resumeLoadSounds"
  /\ last.path = "ok"
  /\ Len(sounds) < MaxSounds
  /\ sounds = backendSounds

\* C39: update_sound_keybind is issued by saveEditingSound, update_sound_settings
\* exactly when update_sound_keybind has returned, with either outcome,
\* update_sound_trim exactly when update_sound_settings has returned with
\* success; a trim call that succeeded is followed by a reload; the edit
\* session is closed when the save ends, in the try or in the catch.
C39_SaveCallsInOrder ==
  [][/\ Issued("update_sound_keybind") <=> (last'.op = "saveEditingSound" /\ last'.path = "sent")
     /\ Issued("update_sound_settings")
          <=> (last'.op = "resumeSaveEditingSound" /\ last'.call = "update_sound_keybind")
     /\ Issued("update_sound_trim")
          <=> (last'.op = "resumeSaveEditingSound" /\ last'.call = "update_sound_settings"
                 /\ last'.path = "ok")
     /\ (last'.op = "resumeSaveEditingSound" /\ last'.call = "update_sound_trim"
           /\ last'.path = "ok") => Issued("get_sounds")
     /\ (last'.op = "resumeSaveEditingSound"
           /\ (last'.call = "update_sound_trim"
                 \/ (last'.call = "update_sound_settings" /\ last'.path = "err")))
          => editingSound' = NoSound]_vars

\* A save has ended with success: the trim call returned, the reload is in
\* flight and the dialog is closed.
C39_SaveCompleted ==
  /\ last.op = "resumeSaveEditingSound"
  /\ last.call = "update_sound_trim"
  /\ last.path = "ok"
  /\ \E k \in 1..Len(tasks) : tasks[k].op = "get_sounds" /\ tasks[k].st = "sent"
  /\ editingSound = NoSound

====
